---- MODULE Spec2Model ----
(***************************************************************************)
(* Model of the wavey teleoperation console: the command vocabulary and    *)
(* its wire encoding (utils/robot_ops.py), the per-call serial transport,  *)
(* the stroke / pickup planners and the coordinate transform               *)
(* (utils/canvas_utils.py), and the two frame sources                      *)
(* (camera_control_app.py, utils/video_processing.py).                     *)
(*                                                                         *)
(* Numbers.  Python floats are modelled by exact rationals <<n, d>> with   *)
(* d > 0 and gcd(n, d) = 1; rounding error of IEEE doubles is not          *)
(* modelled.  Type codes and joint ids stay integers, as in the source.    *)
(***************************************************************************)
EXTENDS Integers, Sequences, FiniteSets, TLC

VARIABLES
    app,        \* app[s]: the program session s runs ("none" before start)
    port,       \* port[s]: RobotArmController.port / robot_arm_port
    job,        \* job[s]: the handler session s runs (or ran last) and its inputs
    todo,       \* todo[s]: commands the running handler has still to send
    sent,       \* sent[s]: commands the running handler passed to send_command
    pc,         \* pc[s]: "idle" | "ready" (between sends) | "open" (inside `with`)
    conn,       \* conn[s]: session s holds an open serial connection
    writes,     \* writes[s]: ser.write calls that succeeded in the running handler
    failed,     \* failed[s]: "Failed to send command" reports of the running handler
    warned,     \* warned[s]: "No robotic arm port detected" reports
    written,    \* written[s]: the line the running handler wrote last (<<>> if none)
    last,       \* last[s]: st.session_state.last_robot_x / _y / last_base_angle
    cycles,     \* cycles[s]: centering cycles run so far (bounded by MaxCycles)
    caps,       \* caps[c]: capture handle of camera c: "none" | "open" | "closed"
    retained,   \* retained[c]: st.session_state["frame_<c>"] (None if unset)
    good,       \* good[c]: history: RGB image of the last successful read of c
    lastGet,    \* the last frame-source call: [fn, cam, read, result]
    xf,         \* the transform round trip under way
    tracking_active,     \* tracking_active[s]: st.session_state.tracking_active
    selected_camera,     \* selected_camera[s]: st.session_state.selected_camera (-1: unset)
    prev_hand_positions, \* prev_hand_positions[s]: st.session_state.prev_hand_positions
    score_thr,  \* score_thr[s]: hand_tracker.score_thr
    center_smoothing,    \* center_smoothing[s]: st.session_state.center_smoothing
    prevFresh,  \* history: prev_hand_positions[s] was stored by the latest tick
    prevSeen,   \* history: the sides detected in the latest tick's frame
    prevCam,    \* history: the camera prev_hand_positions[s] was observed on
    lastCam,    \* history: the camera whose frame fed last[s]
    tick,       \* tick[s]: what the running video_stream / centering call saw and did
    link,       \* link[c]: Socket.IO connection of client c: "down" | "connecting" | "up"
    events,     \* events the server has received and not yet handled
    inbox,      \* inbox[c]: robot_status events emitted to client c, not yet received
    connected,  \* connected[c]: the client's `connected` flag
    status_received,     \* status_received[c]: the client's `status_received` flag
    pending,    \* history: client c connected or asked and got no robot_status since
    canvas      \* canvas[s]: drawing_result.json_data of the st_canvas widget

sendVars  == <<app, port, job, todo, sent, pc, conn, writes, failed, warned, written>>
trackVars == <<last, cycles, tracking_active, selected_camera, prev_hand_positions,
               score_thr, center_smoothing, prevFresh, prevSeen, prevCam, lastCam>>
sockVars  == <<link, events, inbox, connected, status_received, pending>>
restVars  == <<tick, sockVars, canvas>>
frameVars == <<caps, retained, good, lastGet>>
vars      == <<app, port, job, todo, sent, pc, conn, writes, failed, warned, written,
               last, cycles, caps, retained, good, lastGet, xf,
               tracking_active, selected_camera, prev_hand_positions,
               score_thr, center_smoothing, prevFresh, prevSeen, prevCam, lastCam,
               tick, link, events, inbox, connected, status_received, pending,
               canvas>>

None == "None"
\* an absent tuple-valued entry (a missing st.session_state key, a None frame)
Absent == <<>>

-----------------------------------------------------------------------------
(* Bounds of the model *)

\* most points over all strokes of one drawing
MaxPoints == 4
\* most strokes in one drawing
MaxStrokes == 2
\* most rectangles in one pickup list
MaxRects == 2
\* most centering cycles of one session
MaxCycles == 2
\* camera ids 0 .. MaxCam
MaxCam == 1
\* Socket.IO clients 1 .. MaxClients
MaxClients == 2
\* most events received and robot_status events emitted that are under way
MaxQueue == 1
\* most objects on the drawing canvas
MaxObjects == 2

-----------------------------------------------------------------------------
(* Exact rational arithmetic standing in for Python float arithmetic *)

RECURSIVE Gcd(_, _)
Gcd(a, b) == IF b = 0 THEN a ELSE Gcd(b, a % b)

Abs(n) == IF n < 0 THEN -n ELSE n

\* n/d in lowest terms with positive denominator (d # 0)
Norm(n, d) ==
    LET g == Gcd(Abs(n), Abs(d))
        sg == IF d < 0 THEN -1 ELSE 1
    IN  <<(sg * n) \div g, (sg * d) \div g>>

R(n) == <<n, 1>>
RAdd(a, b) == Norm(a[1] * b[2] + b[1] * a[2], a[2] * b[2])
RSub(a, b) == Norm(a[1] * b[2] - b[1] * a[2], a[2] * b[2])
RMul(a, b) == Norm(a[1] * b[1], a[2] * b[2])
\* Python raises ZeroDivisionError when b = 0; callers guard b # 0
RDiv(a, b) == Norm(a[1] * b[2], a[2] * b[1])

-----------------------------------------------------------------------------
(* config.py *)

CANVAS_WIDTH == 800
CANVAS_HEIGHT == 600
ROBOT_WORKSPACE_WIDTH == R(300)
ROBOT_WORKSPACE_HEIGHT == R(225)
SCALE_X == RDiv(ROBOT_WORKSPACE_WIDTH, R(CANVAS_WIDTH))
SCALE_Y == RDiv(ROBOT_WORKSPACE_HEIGHT, R(CANVAS_HEIGHT))
DRAW_ORIGIN_X == R(100)
DRAW_ORIGIN_Y == R(100)
Z_UP == R(80)
Z_DOWN == R(50)
Z_PICKUP == R(40)
T_ANGLE == Norm(157, 100)
GRIPPER_OPEN_ANGLE == Norm(314, 100)
GRIPPER_CLOSE_ANGLE == Norm(12, 10)
GRIPPER_SPEED == Norm(1, 2)
GRIPPER_ACCELERATION == R(10)
DEFAULT_MOVE_SPEED == Norm(1, 2)
CMD_MOVE_TO_POSITION == 104
CMD_GRIPPER_CONTROL == 106
CMD_JOINT_ANGLE == 121
CMD_MOTOR_ANGLES == 999

\* the keyword defaults of the canvas_utils functions
DefaultCfg ==
    [scale_x |-> SCALE_X, scale_y |-> SCALE_Y,
     origin_x |-> DRAW_ORIGIN_X, origin_y |-> DRAW_ORIGIN_Y,
     z_up |-> Z_UP, z_down |-> Z_DOWN, z_pickup |-> Z_PICKUP,
     t_angle |-> T_ANGLE, speed |-> DEFAULT_MOVE_SPEED]

\* a caller overriding every keyword argument
AltCfg ==
    [scale_x |-> R(1), scale_y |-> R(-2),
     origin_x |-> R(0), origin_y |-> R(7),
     z_up |-> R(90), z_down |-> R(45), z_pickup |-> R(30),
     t_angle |-> R(0), speed |-> R(1)]

Cfgs == {DefaultCfg, AltCfg}

-----------------------------------------------------------------------------
(* utils/robot_ops.py: the command vocabulary *)

\* RobotArmController.set_motor_angles
set_motor_angles(motor_angles) ==
    <<[T |-> 999, angles |-> motor_angles]>>

\* RobotArmController.open_hand
open_hand(open_angle, speed, acc) ==
    <<[T |-> 106, cmd |-> open_angle, spd |-> speed, acc |-> acc]>>

\* RobotArmController.close_hand
close_hand(close_angle, speed, acc) ==
    <<[T |-> 106, cmd |-> close_angle, spd |-> speed, acc |-> acc]>>

\* RobotArmController.point_to_angle
point_to_angle(joint, angle, speed, acc) ==
    <<[T |-> 121, joint |-> joint, angle |-> angle, spd |-> speed, acc |-> acc]>>

\* RobotArmController.pick_up
pick_up(x, y, z, t, speed) ==
    <<[T |-> 104, x |-> x, y |-> y, z |-> z, t |-> t, spd |-> speed]>>

\* RobotArmController.draw_on_table: move to start, then move to end
draw_on_table(start_x, start_y, end_x, end_y, z, t, speed) ==
    <<[T |-> 104, x |-> start_x, y |-> start_y, z |-> z, t |-> t, spd |-> speed],
      [T |-> 104, x |-> end_x, y |-> end_y, z |-> z, t |-> t, spd |-> speed]>>

-----------------------------------------------------------------------------
(* utils/canvas_utils.py: the planners *)

\* mutant: the speed field under another key
MoveToLongKey(x, y, z, t_angle, speed) ==
    [T |-> CMD_MOVE_TO_POSITION, x |-> x, y |-> y, z |-> z,
     t |-> t_angle, speed |-> speed]

\* send_drawing_instructions.move_to: the command it hands to send_command
move_to(x, y, z, t_angle, speed) ==
    [T |-> CMD_MOVE_TO_POSITION, x |-> x, y |-> y, z |-> z,
     t |-> t_angle, spd |-> speed]

\* mutant: the pen is not lowered at the first point
StrokeCommandsNoTouchDown(stroke, z_up, z_down, t_angle, speed) ==
    IF stroke = <<>> THEN <<>>
    ELSE LET n == Len(stroke)
         IN  <<[T |-> CMD_MOVE_TO_POSITION, x |-> stroke[1][1], y |-> stroke[1][2],
                z |-> z_up, t |-> t_angle, spd |-> speed]>>
             \o [i \in 1..(n - 1) |->
                   [T |-> CMD_MOVE_TO_POSITION, x |-> stroke[i + 1][1],
                    y |-> stroke[i + 1][2], z |-> z_down, t |-> t_angle, spd |-> speed]]
             \o <<[T |-> CMD_MOVE_TO_POSITION, x |-> stroke[n][1], y |-> stroke[n][2],
                   z |-> z_up, t |-> t_angle, spd |-> speed]>>

\* mutant: the pen is not lifted at the end of the stroke
StrokeCommandsNoLift(stroke, z_up, z_down, t_angle, speed) ==
    IF stroke = <<>> THEN <<>>
    ELSE LET n == Len(stroke)
         IN  <<[T |-> CMD_MOVE_TO_POSITION, x |-> stroke[1][1], y |-> stroke[1][2],
                z |-> z_up, t |-> t_angle, spd |-> speed],
               [T |-> CMD_MOVE_TO_POSITION, x |-> stroke[1][1], y |-> stroke[1][2],
                z |-> z_down, t |-> t_angle, spd |-> speed]>>
             \o [i \in 1..(n - 1) |->
                   [T |-> CMD_MOVE_TO_POSITION, x |-> stroke[i + 1][1],
                    y |-> stroke[i + 1][2], z |-> z_down, t |-> t_angle, spd |-> speed]]

\* the body of the `for stroke in strokes` loop for one stroke
StrokeCommands(stroke, z_up, z_down, t_angle, speed) ==
    IF stroke = <<>> THEN <<>>
    ELSE LET n == Len(stroke)
         IN  <<move_to(stroke[1][1], stroke[1][2], z_up, t_angle, speed),
               move_to(stroke[1][1], stroke[1][2], z_down, t_angle, speed)>>
             \o [i \in 1..(n - 1) |->
                   move_to(stroke[i + 1][1], stroke[i + 1][2], z_down, t_angle, speed)]
             \o <<move_to(stroke[n][1], stroke[n][2], z_up, t_angle, speed)>>

RECURSIVE SendDrawingStopAtEmpty(_, _, _, _, _)
\* mutant: an empty stroke ends the loop (`break` for `continue`)
SendDrawingStopAtEmpty(strokes, z_up, z_down, t_angle, speed) ==
    IF strokes = <<>> \/ Head(strokes) = <<>> THEN <<>>
    ELSE StrokeCommands(Head(strokes), z_up, z_down, t_angle, speed)
         \o SendDrawingStopAtEmpty(Tail(strokes), z_up, z_down, t_angle, speed)

RECURSIVE send_drawing_instructions(_, _, _, _, _)
\* the `for stroke in strokes` loop: an empty stroke is skipped
send_drawing_instructions(strokes, z_up, z_down, t_angle, speed) ==
    IF strokes = <<>> THEN <<>>
    ELSE StrokeCommands(Head(strokes), z_up, z_down, t_angle, speed)
         \o send_drawing_instructions(Tail(strokes), z_up, z_down, t_angle, speed)

\* mutant: the rectangle's far corner is taken for its center
RectCommandsCorner(rect, scale_x, scale_y, origin_x, origin_y, z_up, z_pickup, t_angle, speed) ==
    LET center_x == RAdd(rect.left, rect.width)
        center_y == RAdd(rect.top, rect.height)
        robot_x == RAdd(origin_x, RMul(center_x, scale_x))
        robot_y == RAdd(origin_y, RMul(center_y, scale_y))
        command_up == [T |-> CMD_MOVE_TO_POSITION, x |-> robot_x, y |-> robot_y,
                       z |-> z_up, t |-> t_angle, spd |-> speed]
        command_down == [T |-> CMD_MOVE_TO_POSITION, x |-> robot_x, y |-> robot_y,
                         z |-> z_pickup, t |-> t_angle, spd |-> speed]
        close_command == [T |-> CMD_GRIPPER_CONTROL, cmd |-> GRIPPER_CLOSE_ANGLE,
                          spd |-> GRIPPER_SPEED, acc |-> GRIPPER_ACCELERATION]
    IN  <<command_up, command_down, close_command, command_up>>

\* mutant: the arm stays at pickup height after closing the gripper
RectCommandsNoLift(rect, scale_x, scale_y, origin_x, origin_y, z_up, z_pickup, t_angle, speed) ==
    LET center_x == RAdd(rect.left, RDiv(rect.width, R(2)))
        center_y == RAdd(rect.top, RDiv(rect.height, R(2)))
        robot_x == RAdd(origin_x, RMul(center_x, scale_x))
        robot_y == RAdd(origin_y, RMul(center_y, scale_y))
        command_up == [T |-> CMD_MOVE_TO_POSITION, x |-> robot_x, y |-> robot_y,
                       z |-> z_up, t |-> t_angle, spd |-> speed]
        command_down == [T |-> CMD_MOVE_TO_POSITION, x |-> robot_x, y |-> robot_y,
                         z |-> z_pickup, t |-> t_angle, spd |-> speed]
        close_command == [T |-> CMD_GRIPPER_CONTROL, cmd |-> GRIPPER_CLOSE_ANGLE,
                          spd |-> GRIPPER_SPEED, acc |-> GRIPPER_ACCELERATION]
    IN  <<command_up, command_down, close_command>>

\* mutant: the gripper is opened above the target before the descent
RectCommandsOpenFirst(rect, scale_x, scale_y, origin_x, origin_y, z_up, z_pickup, t_angle, speed) ==
    LET center_x == RAdd(rect.left, RDiv(rect.width, R(2)))
        center_y == RAdd(rect.top, RDiv(rect.height, R(2)))
        robot_x == RAdd(origin_x, RMul(center_x, scale_x))
        robot_y == RAdd(origin_y, RMul(center_y, scale_y))
        command_up == [T |-> CMD_MOVE_TO_POSITION, x |-> robot_x, y |-> robot_y,
                       z |-> z_up, t |-> t_angle, spd |-> speed]
        command_down == [T |-> CMD_MOVE_TO_POSITION, x |-> robot_x, y |-> robot_y,
                         z |-> z_pickup, t |-> t_angle, spd |-> speed]
        open_command == [T |-> CMD_GRIPPER_CONTROL, cmd |-> GRIPPER_OPEN_ANGLE,
                         spd |-> GRIPPER_SPEED, acc |-> GRIPPER_ACCELERATION]
        close_command == [T |-> CMD_GRIPPER_CONTROL, cmd |-> GRIPPER_CLOSE_ANGLE,
                          spd |-> GRIPPER_SPEED, acc |-> GRIPPER_ACCELERATION]
    IN  <<command_up, open_command, command_down, close_command, command_up>>

\* the body of the `for rect in rectangles` loop for one rectangle
RectCommands(rect, scale_x, scale_y, origin_x, origin_y, z_up, z_pickup, t_angle, speed) ==
    LET center_x == RAdd(rect.left, RDiv(rect.width, R(2)))
        center_y == RAdd(rect.top, RDiv(rect.height, R(2)))
        robot_x == RAdd(origin_x, RMul(center_x, scale_x))
        robot_y == RAdd(origin_y, RMul(center_y, scale_y))
        command_up == [T |-> CMD_MOVE_TO_POSITION, x |-> robot_x, y |-> robot_y,
                       z |-> z_up, t |-> t_angle, spd |-> speed]
        command_down == [T |-> CMD_MOVE_TO_POSITION, x |-> robot_x, y |-> robot_y,
                         z |-> z_pickup, t |-> t_angle, spd |-> speed]
        close_command == [T |-> CMD_GRIPPER_CONTROL, cmd |-> GRIPPER_CLOSE_ANGLE,
                          spd |-> GRIPPER_SPEED, acc |-> GRIPPER_ACCELERATION]
    IN  <<command_up, command_down, close_command, command_up>>

RECURSIVE pick_up_at_rectangle_centers(_, _)
pick_up_at_rectangle_centers(rectangles, cfg) ==
    IF rectangles = <<>> THEN <<>>
    ELSE RectCommands(Head(rectangles), cfg.scale_x, cfg.scale_y, cfg.origin_x,
                      cfg.origin_y, cfg.z_up, cfg.z_pickup, cfg.t_angle, cfg.speed)
         \o pick_up_at_rectangle_centers(Tail(rectangles), cfg)

-----------------------------------------------------------------------------
(* utils/robot_ops.py, camera_control_app.py: the transport *)

Sessions == {1, 2}

\* mutant: the port check always passes
AlwaysAvailable(p) == TRUE

\* RobotArmController.is_port_available
is_port_available(p) == p # None

\* json.dumps(command): a JSON object; the integer keys of a motor-angle
\* mapping become strings, every other value is written as it is
JsonDumps(command) ==
    IF "angles" \in DOMAIN command
    THEN [command EXCEPT !.angles =
            [k \in {ToString(m) : m \in DOMAIN command.angles} |->
                command.angles[CHOOSE m \in DOMAIN command.angles : ToString(m) = k]]]
    ELSE command

\* (json.dumps(command) + "\n").encode(): the bytes of one line
Encode(command) == <<JsonDumps(command), "\n">>

\* mutant: the connection is closed only after a write that returned
WithExitLeak(ok) == ~ok

\* leaving the `with serial.Serial(...)` block closes the connection,
\* whether the write returned (ok) or raised
WithExit(ok) == FALSE

\* mutant: a failed send ends the caller's plan
ResumeAbort(rest, ok) == IF ok THEN rest ELSE <<>>

\* `except Exception` swallows the error: send_command returns normally and
\* the caller goes on with the commands it has left
Resume(rest, ok) == rest

NoJob == [op |-> "none", strokes |-> <<>>, rects |-> <<>>, cfg |-> DefaultCfg,
          plan |-> <<>>]

\* nothing observed: no video_stream run or centering call is under way
NoTick == [fn |-> "none", cam |-> -1, track_movement |-> FALSE, enabled |-> FALSE,
           center |-> FALSE, image |-> FALSE, detections |-> <<>>, prev |-> <<>>,
           prevFresh |-> FALSE, prevSeen |-> {}, prevCam |-> -1, movements |-> <<>>,
           positions |-> <<>>, called |-> "none", hands |-> <<>>, raw |-> Absent,
           stored |-> Absent, storedCam |-> -1, smoothing |-> <<0, 1>>,
           persons |-> <<>>, thr |-> <<0, 1>>, afterReset |-> FALSE, kept |-> Absent]

\* A handler starts: `cmds` is the sequence of commands it passes, one after
\* the other, to send_command.
Begin(s, op, strokes, rects, cfg, cmds) ==
    /\ pc[s] = "idle"
    /\ app[s] # "none"
    /\ job' = [job EXCEPT ![s] = [op |-> op, strokes |-> strokes, rects |-> rects,
                                  cfg |-> cfg, plan |-> cmds]]
    /\ todo' = [todo EXCEPT ![s] = cmds]
    /\ sent' = [sent EXCEPT ![s] = <<>>]
    /\ writes' = [writes EXCEPT ![s] = 0]
    /\ failed' = [failed EXCEPT ![s] = 0]
    /\ warned' = [warned EXCEPT ![s] = 0]
    /\ written' = [written EXCEPT ![s] = <<>>]
    /\ pc' = [pc EXCEPT ![s] = IF cmds = <<>> THEN "done" ELSE "ready"]
    /\ UNCHANGED <<app, port, conn, frameVars, xf, sockVars, canvas>>

\* a handler that leaves the tracking state alone
Call(s, op, strokes, rects, cfg, cmds) ==
    Begin(s, op, strokes, rects, cfg, cmds) /\ UNCHANGED <<trackVars, restVars>>

\* A program starts.  "controller": a caller of RobotArmController and of the
\* canvas_utils planners (dashboard.py, drawing_app.py, robot_ops.py's own
\* run); "camera_control": camera_control_app.py with its own send_command;
\* "hand_tracking": hand_tracking_app.py.  Port detection finds a device or
\* finds none.
Start(s) ==
    /\ app[s] = "none"
    /\ \E a \in {"controller", "camera_control", "hand_tracking"}, p \in {None, "dev"} :
          /\ app' = [app EXCEPT ![s] = a]
          /\ port' = [port EXCEPT ![s] = p]
    /\ UNCHANGED <<job, todo, sent, pc, conn, writes, failed, warned, written,
                   trackVars, restVars, frameVars, xf>>

\* control after send_command returned, with `rest` still to send
AfterCall(rest) == IF rest = <<>> THEN "done" ELSE "ready"

\* send_command, up to the opening of the connection: the port check
\* (RobotArmController only), then serial.Serial(...) opens the port or raises
SendCommand(s) ==
    /\ pc[s] = "ready"
    /\ LET command == Head(todo[s])
           rest == Tail(todo[s])
       IN  /\ sent' = [sent EXCEPT ![s] = Append(@, command)]
           /\ IF app[s] # "camera_control" /\ ~is_port_available(port[s])
              THEN /\ warned' = [warned EXCEPT ![s] = @ + 1]
                   /\ todo' = [todo EXCEPT ![s] = rest]
                   /\ pc' = [pc EXCEPT ![s] = AfterCall(rest)]
                   /\ UNCHANGED <<conn, failed>>
              ELSE \/ /\ conn' = [conn EXCEPT ![s] = TRUE]
                      /\ todo' = [todo EXCEPT ![s] = rest]
                      /\ pc' = [pc EXCEPT ![s] = "open"]
                      /\ UNCHANGED <<failed, warned>>
                   \/ /\ failed' = [failed EXCEPT ![s] = @ + 1]
                      /\ todo' = [todo EXCEPT ![s] = Resume(rest, FALSE)]
                      /\ pc' = [pc EXCEPT ![s] = AfterCall(Resume(rest, FALSE))]
                      /\ UNCHANGED <<conn, warned>>
    /\ UNCHANGED <<app, port, job, writes, written, trackVars, restVars, frameVars, xf>>

\* send_command, inside the `with` block: ser.write(...) writes the line or
\* raises (a failing write is taken to put nothing on the line), the block
\* closes the connection and send_command returns
SendWrite(s) ==
    /\ pc[s] = "open"
    /\ \E ok \in BOOLEAN :
          /\ IF ok
             THEN /\ written' = [written EXCEPT ![s] = Encode(sent[s][Len(sent[s])])]
                  /\ writes' = [writes EXCEPT ![s] = @ + 1]
                  /\ UNCHANGED failed
             ELSE /\ failed' = [failed EXCEPT ![s] = @ + 1]
                  /\ UNCHANGED <<written, writes>>
          /\ conn' = [conn EXCEPT ![s] = WithExit(ok)]
          /\ todo' = [todo EXCEPT ![s] = Resume(@, ok)]
          /\ pc' = [pc EXCEPT ![s] = AfterCall(Resume(todo[s], ok))]
    /\ UNCHANGED <<app, port, job, sent, warned, trackVars, restVars, frameVars, xf>>

\* The handler has returned and the script run ends: the session waits for
\* the operator's next action.
Return(s) ==
    /\ pc[s] = "done"
    /\ pc' = [pc EXCEPT ![s] = "idle"]
    /\ job' = [job EXCEPT ![s] = NoJob]
    /\ sent' = [sent EXCEPT ![s] = <<>>]
    /\ writes' = [writes EXCEPT ![s] = 0]
    /\ failed' = [failed EXCEPT ![s] = 0]
    /\ warned' = [warned EXCEPT ![s] = 0]
    /\ written' = [written EXCEPT ![s] = <<>>]
    /\ tick' = [tick EXCEPT ![s] = NoTick]
    /\ UNCHANGED <<app, port, todo, conn, trackVars, frameVars, xf, sockVars, canvas>>

-----------------------------------------------------------------------------
(* Operator actions: the inputs are drawn from small sets *)

MotorAngleChoices ==
    {[m \in 1..4 |-> R(0)], [m \in 1..4 |-> IF m = 1 THEN R(90) ELSE R(-180)]}
GripperAngleChoices == {GRIPPER_OPEN_ANGLE, GRIPPER_CLOSE_ANGLE}
JointChoices == {1, 2}
JointAngleChoices == {R(45), R(-45), R(90)}
TargetChoices == {<<R(200), R(0), R(50)>>, <<R(100), R(100), R(80)>>}
PointChoices == {<<R(0), R(0)>>, <<R(10), R(20)>>}

\* the console can talk to the arm: camera_control_app shows its controls
\* only when a port was detected; RobotArmController's methods can be called
\* without one (robot_ops.py's own test run does)
CanCommand(s) ==
    \/ app[s] = "controller"
    \/ app[s] = "camera_control" /\ port[s] # None

SetMotorAngles(s) ==
    /\ pc[s] = "idle"
    /\ CanCommand(s)
    /\ \E a \in MotorAngleChoices :
          Call(s, "set_motor_angles", <<>>, <<>>, DefaultCfg, set_motor_angles(a))

OpenHand(s) ==
    /\ pc[s] = "idle"
    /\ CanCommand(s)
    /\ \E a \in GripperAngleChoices :
          Call(s, "open_hand", <<>>, <<>>, DefaultCfg, open_hand(a, Norm(1, 2), R(10)))

CloseHand(s) ==
    /\ pc[s] = "idle"
    /\ CanCommand(s)
    /\ \E a \in GripperAngleChoices :
          Call(s, "close_hand", <<>>, <<>>, DefaultCfg, close_hand(a, Norm(1, 2), R(10)))

PointToAngle(s) ==
    /\ pc[s] = "idle"
    /\ CanCommand(s)
    /\ \E j \in JointChoices, a \in JointAngleChoices :
          Call(s, "point_to_angle", <<>>, <<>>, DefaultCfg,
                point_to_angle(j, a, R(10), R(10)))

PickUp(s) ==
    /\ pc[s] = "idle"
    /\ CanCommand(s)
    /\ \E p \in TargetChoices :
          Call(s, "pick_up", <<>>, <<>>, DefaultCfg,
                pick_up(p[1], p[2], p[3], Norm(157, 100), Norm(1, 2)))

DrawOnTable(s) ==
    /\ pc[s] = "idle"
    /\ CanCommand(s)
    /\ \E p \in TargetChoices, q \in TargetChoices :
          Call(s, "draw_on_table", <<>>, <<>>, DefaultCfg,
                draw_on_table(p[1], p[2], q[1], q[2], R(50), Norm(157, 100), Norm(1, 2)))

RECURSIVE TotalPoints(_)
TotalPoints(strokes) ==
    IF strokes = <<>> THEN 0 ELSE Len(Head(strokes)) + TotalPoints(Tail(strokes))

StrokeChoices == UNION {[1..n -> PointChoices] : n \in 0..MaxPoints}
StrokeLists ==
    {sl \in UNION {[1..m -> StrokeChoices] : m \in 0..MaxStrokes} :
        TotalPoints(sl) <= MaxPoints}

RectChoices ==
    {[left |-> R(100), top |-> R(100), width |-> R(50), height |-> R(50)],
     [left |-> R(0), top |-> R(0), width |-> R(0), height |-> R(0)],
     [left |-> R(10), top |-> R(20), width |-> R(0), height |-> R(30)],
     [left |-> R(10), top |-> R(20), width |-> R(5), height |-> R(0)]}
RectLists == UNION {[1..m -> RectChoices] : m \in 0..MaxRects}

SendDrawingInstructions(s) ==
    /\ pc[s] = "idle"
    /\ app[s] = "controller"
    /\ \E strokes \in StrokeLists, cfg \in Cfgs :
          Call(s, "send_drawing_instructions", strokes, <<>>, cfg,
                send_drawing_instructions(strokes, cfg.z_up, cfg.z_down,
                                          cfg.t_angle, cfg.speed))

PickUpAtRectangleCenters(s) ==
    /\ pc[s] = "idle"
    /\ app[s] = "controller"
    /\ \E rects \in RectLists, cfg \in Cfgs :
          Call(s, "pick_up_at_rectangle_centers", <<>>, rects, cfg,
                pick_up_at_rectangle_centers(rects, cfg))

-----------------------------------------------------------------------------
(* utils/canvas_utils.py and drawing_app.py: the drawing canvas *)

\* objects of the canvas' json_data: a freedraw path with its segments, a
\* rectangle, any other shape
PathObject(path) == [type |-> "path", path |-> path]

ObjectChoices ==
    {PathObject(<< <<"M", R(10), R(20)>>, <<"L", R(30), R(40)>> >>),
     PathObject(<< <<"M", R(0), R(0)>>, <<"Q", R(1), R(2), R(3), R(4)>>,
                   <<"L", R(5)>>, <<"L", R(800), R(600)>> >>),
     PathObject(<< <<"Q", R(1), R(2), R(3), R(4)>>, <<"Z">> >>),
     [type |-> "rect", left |-> R(100), top |-> R(100), width |-> R(50),
      height |-> R(50)],
     [type |-> "rect", left |-> R(10), top |-> R(20)],
     [type |-> "circle", left |-> R(1), top |-> R(1)]}

RECURSIVE PathPointsReversed(_)
\* mutant: each point is put in front of the points collected so far
PathPointsReversed(path) ==
    IF path = <<>> THEN <<>>
    ELSE LET segment == Head(path)
         IN  PathPointsReversed(Tail(path))
             \o (IF Len(segment) >= 3 /\ segment[1] \in {"M", "L"}
                 THEN << <<segment[2], segment[3]>> >> ELSE <<>>)

RECURSIVE PathPoints(_)
\* the `for segment in path` loop: the points of the M and L segments
PathPoints(path) ==
    IF path = <<>> THEN <<>>
    ELSE LET segment == Head(path)
         IN  (IF Len(segment) >= 3 /\ segment[1] \in {"M", "L"}
              THEN << <<segment[2], segment[3]>> >> ELSE <<>>)
             \o PathPoints(Tail(path))

\* obj.get(key, default)
Get(obj, key, default) == IF key \in DOMAIN obj THEN obj[key] ELSE default

RECURSIVE ParseObjects(_, _, _)
\* the `for obj in json_data["objects"]` loop
ParseObjects(objects, strokes, rectangles) ==
    IF objects = <<>> THEN [strokes |-> strokes, rectangles |-> rectangles]
    ELSE LET obj == Head(objects)
             obj_type == Get(obj, "type", None)
         IN  IF obj_type = "path"
             THEN LET points == PathPoints(Get(obj, "path", <<>>))
                  IN  ParseObjects(Tail(objects),
                                   IF points # <<>> THEN Append(strokes, points)
                                   ELSE strokes,
                                   rectangles)
             ELSE IF obj_type = "rect"
             THEN ParseObjects(Tail(objects), strokes,
                               Append(rectangles,
                                      [left |-> Get(obj, "left", R(0)),
                                       top |-> Get(obj, "top", R(0)),
                                       width |-> Get(obj, "width", R(0)),
                                       height |-> Get(obj, "height", R(0))]))
             ELSE ParseObjects(Tail(objects), strokes, rectangles)

\* parse_canvas_strokes_and_rectangles(json_data); None and {} are both <<>>
parse_canvas_strokes_and_rectangles(json_data) ==
    IF DOMAIN json_data = {} \/ "objects" \notin DOMAIN json_data
    THEN [strokes |-> <<>>, rectangles |-> <<>>]
    ELSE ParseObjects(json_data.objects, <<>>, <<>>)

\* scale_and_offset_points(points, scale_x, scale_y, origin_x, origin_y)
scale_and_offset_points(points, scale_x, scale_y, origin_x, origin_y) ==
    [i \in 1..Len(points) |->
        <<RAdd(origin_x, RMul(points[i][1], scale_x)),
          RAdd(origin_y, RMul(points[i][2], scale_y))>>]

\* mutant: the pickups are sent before the strokes
SendToRobotPickupFirst(json_data) ==
    LET parsed == parse_canvas_strokes_and_rectangles(json_data)
        scaled_strokes == [i \in 1..Len(parsed.strokes) |->
                              scale_and_offset_points(parsed.strokes[i], SCALE_X, SCALE_Y,
                                                      DRAW_ORIGIN_X, DRAW_ORIGIN_Y)]
    IN  pick_up_at_rectangle_centers(parsed.rectangles, DefaultCfg)
        \o send_drawing_instructions(scaled_strokes, Z_UP, Z_DOWN, T_ANGLE,
                                     DEFAULT_MOVE_SPEED)

\* drawing_app.main under `if send_button:`: the commands one click sends
SendToRobotPlan(json_data) ==
    IF DOMAIN json_data = {} THEN <<>>
    ELSE LET parsed == parse_canvas_strokes_and_rectangles(json_data)
             scaled_strokes == [i \in 1..Len(parsed.strokes) |->
                                   scale_and_offset_points(parsed.strokes[i], SCALE_X,
                                                           SCALE_Y, DRAW_ORIGIN_X,
                                                           DRAW_ORIGIN_Y)]
         IN  IF parsed.strokes = <<>> /\ parsed.rectangles = <<>> THEN <<>>
             ELSE (IF scaled_strokes # <<>>
                   THEN send_drawing_instructions(scaled_strokes, Z_UP, Z_DOWN, T_ANGLE,
                                                  DEFAULT_MOVE_SPEED)
                   ELSE <<>>)
                  \o (IF parsed.rectangles # <<>>
                      THEN pick_up_at_rectangle_centers(parsed.rectangles, DefaultCfg)
                      ELSE <<>>)

\* drawing_app.main shows the canvas only when a port was detected
CanDraw(s) == app[s] = "controller" /\ is_port_available(port[s])

\* the operator draws an object: st_canvas reports it in json_data
DrawObject(s, obj) ==
    /\ pc[s] = "idle"
    /\ CanDraw(s)
    /\ LET objects == Get(canvas[s], "objects", <<>>)
       IN  /\ Len(objects) < MaxObjects
           /\ canvas' = [canvas EXCEPT ![s] = [objects |-> Append(objects, obj)]]
    /\ UNCHANGED <<sendVars, trackVars, tick, sockVars, frameVars, xf>>

\* the "Send to Robot" button
SendToRobot(s) ==
    /\ pc[s] = "idle"
    /\ CanDraw(s)
    /\ LET parsed == parse_canvas_strokes_and_rectangles(canvas[s])
       IN  Call(s, "send_to_robot", parsed.strokes, parsed.rectangles, DefaultCfg,
                SendToRobotPlan(canvas[s]))

-----------------------------------------------------------------------------
(* hand_tracking_app.py: centering *)

CAMERA_WIDTH == 640
CAMERA_HEIGHT == 480

\* hand_positions: a dict from side to pixel position
HandPositionChoices ==
    {<<>>,
     [sd \in {"right"} |-> <<320, 240>>],
     [sd \in {"left", "right"} |-> IF sd = "left" THEN <<100, 200>> ELSE <<501, 300>>],
     [sd \in {"left"} |-> <<800, 100>>]}
\* st.session_state.center_smoothing (slider 0.1 .. 1.0, default 0.5)
SmoothingChoices == {Norm(1, 2), R(1), Norm(1, 10)}

RECURSIVE SumOver(_, _, _)
\* sum(pos[k] for pos in hand_positions.values())
SumOver(hand_positions, keys, k) ==
    IF keys = {} THEN 0
    ELSE LET sd == CHOOSE x \in keys : TRUE
         IN  hand_positions[sd][k] + SumOver(hand_positions, keys \ {sd}, k)

\* the raw (unsmoothed) target <<robot_x, robot_y, base_angle_adjustment>>
RawTarget(hand_positions) ==
    LET n == Cardinality(DOMAIN hand_positions)
        center_x == Norm(SumOver(hand_positions, DOMAIN hand_positions, 1), n)
        center_y == Norm(SumOver(hand_positions, DOMAIN hand_positions, 2), n)
        frame_center_x == RDiv(R(CAMERA_WIDTH), R(2))
        offset_x == RSub(center_x, frame_center_x)
        norm_offset_x == RDiv(offset_x, frame_center_x)
        robot_x == RAdd(DRAW_ORIGIN_X,
                        RMul(RDiv(center_x, R(CAMERA_WIDTH)), ROBOT_WORKSPACE_WIDTH))
        robot_y == RAdd(DRAW_ORIGIN_Y,
                        RMul(RDiv(center_y, R(CAMERA_HEIGHT)), ROBOT_WORKSPACE_HEIGHT))
        base_angle_adjustment == RMul(norm_offset_x, R(45))
    IN  <<robot_x, robot_y, base_angle_adjustment>>

\* mutant: the step is taken from the raw value instead of the stored one
SmoothOvershoot(prev, raw, smoothing) == RAdd(raw, RMul(RSub(raw, prev), smoothing))

\* value_t = value_{t-1} + (raw - value_{t-1}) * smoothing
Smooth(prev, raw, smoothing) == RAdd(prev, RMul(RSub(raw, prev), smoothing))

\* the triple stored in st.session_state and sent to the arm
SmoothedTarget(hand_positions, stored, smoothing) ==
    LET raw == RawTarget(hand_positions)
    IN  IF stored = Absent THEN raw
        ELSE [k \in 1..3 |-> Smooth(stored[k], raw[k], smoothing)]

\* the two commands of one centering cycle
CenterCommands(target, smoothing) ==
    point_to_angle(1, target[3], RMul(smoothing, R(20)), R(10))
    \o pick_up(target[1], target[2], Z_UP, T_ANGLE, smoothing)

\* mutant: the guard looks at the positions only
CenterWithoutPortCheck(hand_positions, robot_port, stored, smoothing) ==
    IF DOMAIN hand_positions = {}
    THEN [cmds |-> <<>>, last |-> stored, ran |-> FALSE]
    ELSE LET target == SmoothedTarget(hand_positions, stored, smoothing)
         IN  [cmds |-> CenterCommands(target, smoothing), last |-> target, ran |-> TRUE]

\* center_robot_on_hands(hand_positions, robot_arm): the commands it sends and
\* the smoothing triple it leaves in st.session_state; `ran` tells whether it
\* got past the guard
center_robot_on_hands(hand_positions, robot_port, stored, smoothing) ==
    IF ~is_port_available(robot_port) \/ DOMAIN hand_positions = {}
    THEN [cmds |-> <<>>, last |-> stored, ran |-> FALSE]
    ELSE LET target == SmoothedTarget(hand_positions, stored, smoothing)
         IN  [cmds |-> CenterCommands(target, smoothing), last |-> target, ran |-> TRUE]

\* what a centering call saw: the positions, the raw target, the stored triple
CenterSeen(t, s, hand_positions, smoothing, r) ==
    [t EXCEPT !.called = "center_robot_on_hands",
              !.hands = hand_positions,
              !.raw = IF r.ran THEN RawTarget(hand_positions) ELSE Absent,
              !.stored = last[s],
              !.storedCam = lastCam[s],
              !.smoothing = smoothing]

\* one call of center_robot_on_hands with positions of the caller's choice
CenterRobotOnHands(s) ==
    /\ pc[s] = "idle"
    /\ app[s] = "hand_tracking"
    /\ cycles[s] < MaxCycles
    /\ \E hand_positions \in HandPositionChoices, smoothing \in SmoothingChoices :
          LET r == center_robot_on_hands(hand_positions, port[s], last[s], smoothing)
          IN  /\ Begin(s, "center_robot_on_hands", <<>>, <<>>, DefaultCfg, r.cmds)
              /\ last' = [last EXCEPT ![s] = r.last]
              /\ lastCam' = [lastCam EXCEPT ![s] =
                                IF r.ran THEN selected_camera[s] ELSE @]
              /\ cycles' = [cycles EXCEPT ![s] = @ + 1]
              /\ tick' = [tick EXCEPT ![s] =
                             CenterSeen([NoTick EXCEPT !.fn = "center_robot_on_hands",
                                                       !.cam = selected_camera[s]],
                                        s, hand_positions, smoothing, r)]
              /\ UNCHANGED <<tracking_active, selected_camera, prev_hand_positions,
                             score_thr, center_smoothing, prevFresh, prevSeen,
                             prevCam>>

-----------------------------------------------------------------------------
(* utils/canvas_utils.py: the coordinate transform *)

\* canvas_to_robot_coordinates(canvas_x, canvas_y, scale_x, scale_y, origin_x, origin_y)
canvas_to_robot_coordinates(canvas_x, canvas_y, scale_x, scale_y, origin_x, origin_y) ==
    LET robot_x == RAdd(origin_x, RMul(canvas_x, scale_x))
        robot_y == RAdd(origin_y, RMul(canvas_y, scale_y))
    IN  <<robot_x, robot_y>>

\* mutant: the two scale factors are swapped
RobotToCanvasSwapped(robot_x, robot_y, scale_x, scale_y, origin_x, origin_y) ==
    <<RDiv(RSub(robot_x, origin_x), scale_y), RDiv(RSub(robot_y, origin_y), scale_x)>>

\* robot_to_canvas_coordinates(robot_x, robot_y, scale_x, scale_y, origin_x, origin_y);
\* called with non-zero scales only (Python raises ZeroDivisionError otherwise)
robot_to_canvas_coordinates(robot_x, robot_y, scale_x, scale_y, origin_x, origin_y) ==
    LET canvas_x == RDiv(RSub(robot_x, origin_x), scale_x)
        canvas_y == RDiv(RSub(robot_y, origin_y), scale_y)
    IN  <<canvas_x, canvas_y>>

CoordChoices == {R(0), R(-3), Norm(1, 3), R(125), R(800)}
ScaleChoices == {SCALE_X, R(1), R(-2), Norm(1, 3), R(0)}
OriginChoices == {DRAW_ORIGIN_X, R(0), Norm(-7, 2)}

NoXf == [stage |-> "none"]

\* a caller picks a canvas point and a configuration
XfPick ==
    /\ xf.stage = "none"
    /\ \E x \in CoordChoices, y \in CoordChoices,
          sx \in ScaleChoices, sy \in ScaleChoices,
          ox \in OriginChoices, oy \in OriginChoices :
          xf' = [stage |-> "picked", x |-> x, y |-> y, scale_x |-> sx, scale_y |-> sy,
                 origin_x |-> ox, origin_y |-> oy, robot |-> Absent, canvas |-> Absent]
    /\ UNCHANGED <<sendVars, trackVars, restVars, frameVars>>

\* the caller maps the point to the robot workspace
XfToRobot ==
    /\ xf.stage = "picked"
    /\ xf' = [xf EXCEPT !.stage = "robot",
                        !.robot = canvas_to_robot_coordinates(
                                      xf.x, xf.y, xf.scale_x, xf.scale_y,
                                      xf.origin_x, xf.origin_y)]
    /\ UNCHANGED <<sendVars, trackVars, restVars, frameVars>>

\* the caller maps the robot point back to the canvas
XfToCanvas ==
    /\ xf.stage = "robot"
    /\ IF xf.scale_x = R(0) \/ xf.scale_y = R(0)
       THEN xf' = [xf EXCEPT !.stage = "ZeroDivisionError"]
       ELSE xf' = [xf EXCEPT !.stage = "canvas",
                             !.canvas = robot_to_canvas_coordinates(
                                            xf.robot[1], xf.robot[2], xf.scale_x,
                                            xf.scale_y, xf.origin_x, xf.origin_y)]
    /\ UNCHANGED <<sendVars, trackVars, restVars, frameVars>>

XfDone ==
    /\ xf.stage \in {"canvas", "ZeroDivisionError"}
    /\ xf' = NoXf
    /\ UNCHANGED <<sendVars, trackVars, restVars, frameVars>>

-----------------------------------------------------------------------------
(* camera_control_app.py and utils/video_processing.py: the frame sources *)

Cams == 0..MaxCam

\* frames as the camera delivers them: one pixel <<b, g, r>>
FrameChoices == {<<0, 1, 2>>, <<7, 7, 3>>}

\* cv2.cvtColor(frame, cv2.COLOR_BGR2RGB): the channel order is reversed
BGR2RGB(frame) == <<frame[3], frame[2], frame[1]>>

\* open_capture(camera_index) of both programs: a handle is created once per
\* index; cv2.VideoCapture opens the device or does not
open_capture(c) ==
    /\ caps[c] = "none"
    /\ \E h \in {"open", "closed"} : caps' = [caps EXCEPT ![c] = h]
    /\ UNCHANGED <<sendVars, trackVars, restVars, retained, good, lastGet, xf>>

\* the device goes away: cap.isOpened() answers False from now on
CaptureLost(c) ==
    /\ caps[c] = "open"
    /\ caps' = [caps EXCEPT ![c] = "closed"]
    /\ UNCHANGED <<sendVars, trackVars, restVars, retained, good, lastGet, xf>>

\* mutant: a failed read gives None instead of the retained image
GetContinuousFrameNoFallback(fallback_frame, opened, ret, frame) ==
    IF ~opened THEN <<fallback_frame, fallback_frame>>
    ELSE IF ret THEN <<BGR2RGB(frame), BGR2RGB(frame)>>
    ELSE <<Absent, fallback_frame>>

\* get_continuous_frame(camera_index): <<returned image, new retained image>>,
\* given the retained image, whether the handle exists and is open, and the
\* outcome (ret, frame) of cap.read()
get_continuous_frame(fallback_frame, opened, ret, frame) ==
    IF ~opened THEN <<fallback_frame, fallback_frame>>
    ELSE IF ret THEN <<BGR2RGB(frame), BGR2RGB(frame)>>
    ELSE <<fallback_frame, fallback_frame>>

GetContinuousFrame(c) ==
    \E ret \in BOOLEAN, frame \in FrameChoices :
        LET opened == caps[c] = "open"
            out == get_continuous_frame(retained[c], opened, ret, frame)
        IN  /\ retained' = [retained EXCEPT ![c] = out[2]]
            /\ good' = IF opened /\ ret THEN [good EXCEPT ![c] = frame] ELSE good
            /\ lastGet' = [fn |-> "get_continuous_frame", cam |-> c,
                           read |-> opened /\ ret, result |-> out[1]]
            /\ UNCHANGED <<sendVars, trackVars, restVars, caps, xf>>

\* mutant: the `ret` flag of cap.read() is ignored
GetFrameIgnoringRet(opened, ret, frame_bgr) ==
    IF ~opened THEN Absent ELSE frame_bgr

\* CameraManager.get_frame(camera_index): the BGR frame, or None
get_frame(opened, ret, frame_bgr) ==
    IF ~opened THEN Absent
    ELSE IF ret THEN frame_bgr ELSE Absent

GetFrame(c) ==
    \E ret \in BOOLEAN, frame \in FrameChoices :
        LET opened == caps[c] = "open"
        IN  /\ good' = IF opened /\ ret THEN [good EXCEPT ![c] = frame] ELSE good
            /\ lastGet' = [fn |-> "get_frame", cam |-> c, read |-> opened /\ ret,
                           result |-> get_frame(opened, ret, frame)]
            /\ UNCHANGED <<sendVars, trackVars, restVars, caps, retained, xf>>

\* the image get_hand_tracked_frame and get_annotated_frame return: None when
\* get_frame gave None, else the RGB image of the frame (the marks the
\* detector draws on the frame are not modelled here)
FrameImage(frame) == IF frame = Absent THEN Absent ELSE BGR2RGB(frame)

GetHandTrackedFrame(c) ==
    \E ret \in BOOLEAN, frame \in FrameChoices :
        LET opened == caps[c] = "open"
        IN  /\ good' = IF opened /\ ret THEN [good EXCEPT ![c] = frame] ELSE good
            /\ lastGet' = [fn |-> "get_hand_tracked_frame", cam |-> c,
                           read |-> opened /\ ret,
                           result |-> FrameImage(get_frame(opened, ret, frame))]
            /\ UNCHANGED <<sendVars, trackVars, restVars, caps, retained, xf>>

GetAnnotatedFrame(c) ==
    \E ret \in BOOLEAN, frame \in FrameChoices :
        LET opened == caps[c] = "open"
        IN  /\ good' = IF opened /\ ret THEN [good EXCEPT ![c] = frame] ELSE good
            /\ lastGet' = [fn |-> "get_annotated_frame", cam |-> c,
                           read |-> opened /\ ret,
                           result |-> FrameImage(get_frame(opened, ret, frame))]
            /\ UNCHANGED <<sendVars, trackVars, restVars, caps, retained, xf>>

-----------------------------------------------------------------------------
(* utils/hand_tracking.py and hand_tracking_app.py: the tracking tick *)

HAND_SCORE_THRESHOLD == Norm(1, 2)

\* a > b on rationals
RGt(a, b) == a[1] * b[2] > b[1] * a[2]

\* values of the Confidence Threshold slider (0.0 .. 1.0 in steps of 0.05)
ThresholdChoices == {HAND_SCORE_THRESHOLD, Norm(3, 10)}

\* one row of result.keypoints.data: the number of keypoints and the two wrist
\* keypoints <<x, y, confidence>> (pixel coordinates are whole numbers here,
\* so int(x) leaves them as they are)
Person(left_wrist, right_wrist) ==
    [n |-> 17, left_wrist |-> left_wrist, right_wrist |-> right_wrist]
Unseen == <<0, 0, Norm(1, 10)>>
Seen(x, y) == <<x, y, Norm(9, 10)>>

\* what the pose model reports for a frame: the persons, in order
SceneChoices ==
    {<<>>,
     <<Person(Unseen, Seen(100, 100))>>,
     <<Person(Unseen, Seen(106, 108))>>,
     <<Person(Unseen, Seen(121, 108))>>,
     <<Person(Unseen, Seen(121, 121))>>,
     <<Person(Unseen, Seen(121, 129))>>,
     <<Person(Seen(300, 200), Seen(100, 100))>>}

Detection(kp, side) ==
    [position |-> <<kp[1], kp[2]>>, side |-> side, confidence |-> kp[3],
     keypoint |-> "wrist"]

\* the body of detect_hands' loop over persons
DetectPerson(person, thr) ==
    IF person.n < 17 THEN <<>>
    ELSE (IF RGt(person.left_wrist[3], thr)
          THEN <<Detection(person.left_wrist, "left")>> ELSE <<>>)
         \o (IF RGt(person.right_wrist[3], thr)
             THEN <<Detection(person.right_wrist, "right")>> ELSE <<>>)

RECURSIVE detect_hands(_, _)
\* HandTracker.detect_hands: the list of hand detections of a frame
detect_hands(persons, thr) ==
    IF persons = <<>> THEN <<>>
    ELSE DetectPerson(Head(persons), thr) \o detect_hands(Tail(persons), thr)

\* d[k] = v on a dict
DictPut(d, k, v) == [x \in (DOMAIN d) \cup {k} |-> IF x = k THEN v ELSE d[x]]

\* the direction track_hand_movement gives a displacement; distance > 10 is
\* decided on the squared distance, which is exact on whole pixels
Direction(dx, dy) ==
    IF dx * dx + dy * dy > 100
    THEN IF Abs(dx) > Abs(dy)
         THEN (IF dx > 0 THEN "right" ELSE "left")
         ELSE (IF dy > 0 THEN "down" ELSE "up")
    ELSE "stationary"

\* the movement dict of one detection; distance_sq stands for
\* 'distance' = sqrt(dx**2 + dy**2)
Movement(side, position, prev_pos) ==
    LET dx == position[1] - prev_pos[1]
        dy == position[2] - prev_pos[2]
    IN  [side |-> side, direction |-> Direction(dx, dy),
         distance_sq |-> dx * dx + dy * dy, delta |-> <<dx, dy>>]

RECURSIVE TrackFrom(_, _, _, _)
\* the loop of track_hand_movement over the detections
TrackFrom(hand_detections, prev_positions, current_positions, movements) ==
    IF hand_detections = <<>>
    THEN [movements |-> movements, positions |-> current_positions]
    ELSE LET detection == Head(hand_detections)
             side == detection.side
             position == detection.position
         IN  TrackFrom(Tail(hand_detections), prev_positions,
                       DictPut(current_positions, side, position),
                       IF DOMAIN prev_positions # {} /\ side \in DOMAIN prev_positions
                       THEN Append(movements,
                                   Movement(side, position, prev_positions[side]))
                       ELSE movements)

\* HandTracker.track_hand_movement, given the detections of the frame
track_hand_movement(hand_detections, prev_positions) ==
    TrackFrom(hand_detections, prev_positions, <<>>, <<>>)

\* get_hand_tracked_frame: the image (None without a frame), the movements or
\* the detections, and the current positions (None unless tracked)
get_hand_tracked_frame(frame, persons, thr, track_movement, prev_given, prev_positions) ==
    IF frame = Absent
    THEN [image |-> Absent, result |-> <<>>, positions |-> <<>>]
    ELSE IF track_movement /\ prev_given
    THEN LET t == track_hand_movement(detect_hands(persons, thr), prev_positions)
         IN  [image |-> FrameImage(frame), result |-> t.movements,
              positions |-> t.positions]
    ELSE [image |-> FrameImage(frame), result |-> detect_hands(persons, thr),
          positions |-> <<>>]

\* mutant: the joints of the two axes are exchanged
MovementCommandSwapped(direction) ==
    CASE direction = "up" -> point_to_angle(1, R(45), R(10), R(10))
      [] direction = "down" -> point_to_angle(1, R(-45), R(10), R(10))
      [] direction = "left" -> point_to_angle(2, R(45), R(10), R(10))
      [] direction = "right" -> point_to_angle(2, R(-45), R(10), R(10))
      [] OTHER -> <<>>

\* the if / elif chain of control_robot_from_movement
MovementCommand(direction) ==
    CASE direction = "up" -> point_to_angle(2, R(45), R(10), R(10))
      [] direction = "down" -> point_to_angle(2, R(-45), R(10), R(10))
      [] direction = "left" -> point_to_angle(1, R(45), R(10), R(10))
      [] direction = "right" -> point_to_angle(1, R(-45), R(10), R(10))
      [] OTHER -> <<>>

RECURSIVE ControlFrom(_)
\* the loop of control_robot_from_movement; distance > 20 is decided on the
\* squared distance
ControlFrom(movements) ==
    IF movements = <<>> THEN <<>>
    ELSE LET movement == Head(movements)
         IN  (IF movement.side = "right" /\ movement.distance_sq > 400
              THEN MovementCommand(movement.direction) ELSE <<>>)
             \o ControlFrom(Tail(movements))

\* control_robot_from_movement(movements, robot_arm): the commands it sends
control_robot_from_movement(movements, robot_port) ==
    IF ~is_port_available(robot_port) THEN <<>> ELSE ControlFrom(movements)

RECURSIVE PositionsOf(_)
\* {det['side']: det['position'] for det in detections}
PositionsOf(detections) ==
    IF detections = <<>> THEN <<>>
    ELSE LET det == detections[Len(detections)]
         IN  DictPut(PositionsOf(SubSeq(detections, 1, Len(detections) - 1)),
                     det.side, det.position)

\* {det['side'] for det in detections}
SidesOf(detections) == {detections[i].side : i \in 1..Len(detections)}

\* main, up to the sidebar's camera selectbox: the selection is stored and
\* camera_manager.open_capture(selected_camera) creates the handle if there
\* is none yet
SelectCamera(s, c) ==
    /\ pc[s] = "idle"
    /\ app[s] = "hand_tracking"
    /\ selected_camera[s] # c
    /\ selected_camera' = [selected_camera EXCEPT ![s] = c]
    /\ IF caps[c] = "none"
       THEN \E h \in {"open", "closed"} : caps' = [caps EXCEPT ![c] = h]
       ELSE UNCHANGED caps
    /\ UNCHANGED <<sendVars, last, cycles, tracking_active, prev_hand_positions,
                   score_thr, center_smoothing, prevFresh, prevSeen, prevCam, lastCam, restVars, retained, good,
                   lastGet, xf>>

\* the first run of main: the selectbox shows a camera for the first time
OpenPage(s, c) == selected_camera[s] = -1 /\ SelectCamera(s, c)

\* the operator picks another camera in the selectbox
SwitchCamera(s, c) == selected_camera[s] # -1 /\ SelectCamera(s, c)

\* the Start Tracking button
StartTracking(s) ==
    /\ pc[s] = "idle"
    /\ selected_camera[s] \in Cams
    /\ ~tracking_active[s]
    /\ tracking_active' = [tracking_active EXCEPT ![s] = TRUE]
    /\ UNCHANGED <<sendVars, last, cycles, selected_camera, prev_hand_positions,
                   score_thr, center_smoothing, prevFresh, prevSeen, prevCam, lastCam, restVars, frameVars, xf>>

\* the Stop Tracking button
StopTracking(s) ==
    /\ pc[s] = "idle"
    /\ selected_camera[s] \in Cams
    /\ tracking_active[s]
    /\ tracking_active' = [tracking_active EXCEPT ![s] = FALSE]
    /\ UNCHANGED <<sendVars, last, cycles, selected_camera, prev_hand_positions,
                   score_thr, center_smoothing, prevFresh, prevSeen, prevCam, lastCam, restVars, frameVars, xf>>

\* mutant: Reset also forgets the smoothing triple
ResetAll(s) ==
    /\ pc[s] = "idle"
    /\ selected_camera[s] \in Cams
    /\ DOMAIN prev_hand_positions[s] # {}
    /\ prev_hand_positions' = [prev_hand_positions EXCEPT ![s] = <<>>]
    /\ last' = [last EXCEPT ![s] = Absent]
    /\ prevFresh' = [prevFresh EXCEPT ![s] = FALSE]
    /\ prevCam' = [prevCam EXCEPT ![s] = -1]
    /\ tick' = [tick EXCEPT ![s] = [NoTick EXCEPT !.fn = "reset", !.kept = last[s]]]
    /\ UNCHANGED <<sendVars, cycles, tracking_active, selected_camera,
                   score_thr, center_smoothing, prevSeen, lastCam, sockVars, canvas,
                   frameVars, xf>>

\* the Reset button: prev_hand_positions = {}; the run is remembered, with
\* the smoothing triple it found, until the next video_stream run
Reset(s) ==
    /\ pc[s] = "idle"
    /\ selected_camera[s] \in Cams
    /\ DOMAIN prev_hand_positions[s] # {}
    /\ prev_hand_positions' = [prev_hand_positions EXCEPT ![s] = <<>>]
    /\ prevFresh' = [prevFresh EXCEPT ![s] = FALSE]
    /\ prevCam' = [prevCam EXCEPT ![s] = -1]
    /\ tick' = [tick EXCEPT ![s] = [NoTick EXCEPT !.fn = "reset", !.kept = last[s]]]
    /\ UNCHANGED <<sendVars, last, cycles, tracking_active, selected_camera,
                   score_thr, center_smoothing, prevSeen, lastCam, sockVars, canvas,
                   frameVars, xf>>

\* the Confidence Threshold slider: hand_tracker.score_thr = confidence
SetConfidence(s, confidence) ==
    /\ pc[s] = "idle"
    /\ selected_camera[s] \in Cams
    /\ score_thr[s] # confidence
    /\ score_thr' = [score_thr EXCEPT ![s] = confidence]
    /\ UNCHANGED <<sendVars, last, cycles, tracking_active, selected_camera,
                   prev_hand_positions, center_smoothing, prevFresh, prevSeen,
                   prevCam, lastCam, restVars, frameVars, xf>>

\* the Smoothing slider
SetSmoothing(s, smoothing) ==
    /\ pc[s] = "idle"
    /\ selected_camera[s] \in Cams
    /\ center_smoothing[s] # smoothing
    /\ center_smoothing' = [center_smoothing EXCEPT ![s] = smoothing]
    /\ UNCHANGED <<sendVars, last, cycles, tracking_active, selected_camera,
                   prev_hand_positions, score_thr, prevFresh, prevSeen,
                   prevCam, lastCam, restVars, frameVars, xf>>

\* One run of the video_stream fragment while tracking is active, with the
\* commands of the controller it calls.  The checkboxes' values, the outcome
\* of the read and what the pose model reports (one of `scenes`) are the
\* inputs of the run.
VideoStreamOn(s, scenes) ==
    /\ pc[s] = "idle"
    /\ app[s] = "hand_tracking"
    /\ tracking_active[s]
    /\ selected_camera[s] \in Cams
    /\ cycles[s] < MaxCycles
    /\ \E track_movement \in BOOLEAN, robot_control_enabled \in BOOLEAN,
          ret \in BOOLEAN :
        \E center_on_target \in (IF robot_control_enabled THEN BOOLEAN ELSE {TRUE}),
           persons \in (IF ret /\ caps[selected_camera[s]] = "open"
                         THEN scenes ELSE {<<>>}) :
          LET cam == selected_camera[s]
              frame == get_frame(caps[cam] = "open", ret,
                                 CHOOSE f \in FrameChoices : TRUE)
              g == get_hand_tracked_frame(frame, persons, score_thr[s], track_movement,
                                          track_movement, prev_hand_positions[s])
              shown == g.image # Absent
              detections == IF shown THEN detect_hands(persons, score_thr[s]) ELSE <<>>
              movements == IF shown /\ track_movement THEN g.result ELSE <<>>
              store == shown /\ track_movement /\ DOMAIN g.positions # {}
              hands == IF track_movement THEN g.positions ELSE PositionsOf(g.result)
              centers == shown /\ g.result # <<>> /\ robot_control_enabled
                           /\ center_on_target
              follows == shown /\ track_movement /\ g.result # <<>>
                           /\ robot_control_enabled /\ ~center_on_target
              seen == [NoTick EXCEPT !.fn = "video_stream", !.cam = cam,
                                     !.track_movement = track_movement,
                                     !.enabled = robot_control_enabled,
                                     !.center = center_on_target,
                                     !.image = shown,
                                     !.afterReset = (tick[s].fn = "reset"),
                                     !.kept = tick[s].kept,
                                     !.stored = last[s],
                                     !.persons = IF shown THEN persons ELSE <<>>,
                                     !.thr = score_thr[s],
                                     !.detections = detections,
                                     !.prev = prev_hand_positions[s],
                                     !.prevFresh = prevFresh[s],
                                     !.prevSeen = prevSeen[s],
                                     !.prevCam = prevCam[s],
                                     !.movements = movements,
                                     !.positions = IF shown THEN hands ELSE <<>>]
          IN  /\ prev_hand_positions' = [prev_hand_positions EXCEPT ![s] =
                                            IF store THEN g.positions ELSE @]
              /\ prevFresh' = [prevFresh EXCEPT ![s] = store]
              /\ prevCam' = [prevCam EXCEPT ![s] = IF store THEN cam ELSE @]
              /\ prevSeen' = [prevSeen EXCEPT ![s] = SidesOf(detections)]
              /\ IF centers
                 THEN LET smoothing == center_smoothing[s]
                          r == center_robot_on_hands(hands, port[s], last[s], smoothing)
                      IN    /\ Begin(s, "video_stream", <<>>, <<>>, DefaultCfg, r.cmds)
                            /\ last' = [last EXCEPT ![s] = r.last]
                            /\ lastCam' = [lastCam EXCEPT ![s] =
                                              IF r.ran THEN cam ELSE @]
                            /\ cycles' = [cycles EXCEPT ![s] = @ + 1]
                            /\ tick' = [tick EXCEPT ![s] =
                                           CenterSeen(seen, s, hands, smoothing, r)]
                 ELSE /\ Begin(s, "video_stream", <<>>, <<>>, DefaultCfg,
                               IF follows
                               THEN control_robot_from_movement(movements, port[s])
                               ELSE <<>>)
                      /\ tick' = [tick EXCEPT ![s] =
                                     [seen EXCEPT !.called =
                                        IF follows THEN "control_robot_from_movement"
                                        ELSE "none"]]
                      /\ UNCHANGED <<last, lastCam, cycles>>
              /\ UNCHANGED <<tracking_active, selected_camera, score_thr,
                             center_smoothing>>

\* video_stream in front of one person at a time
VideoStream(s) == VideoStreamOn(s, SceneChoices)

\* frames with several persons and with keypoints at the default threshold
CrowdChoices ==
    {<<>>,
     <<Person(Unseen, Unseen)>>,
     <<Person(<<300, 200, HAND_SCORE_THRESHOLD>>, Seen(100, 100))>>,
     <<Person(Unseen, Seen(100, 100)), Person(Unseen, Seen(300, 200))>>,
     <<Person(Seen(200, 100), Seen(100, 100)), Person(Seen(400, 300), Unseen)>>}

\* a hand that comes, moves and goes
FewChoices ==
    {<<>>,
     <<Person(Unseen, Seen(100, 100))>>,
     <<Person(Unseen, Seen(121, 129))>>}

\* video_stream in front of one hand
VideoStreamFew(s) == VideoStreamOn(s, FewChoices)

\* video_stream in front of a group
VideoStreamCrowd(s) == VideoStreamOn(s, CrowdChoices)

-----------------------------------------------------------------------------
(* flask_app/app.py and its test client flask_app/tests/test_websocket.py *)

Clients == 1..MaxClients

\* the data of the robot_status event
RobotStatus == [connected |-> FALSE, port |-> "Not connected"]

\* the clients in the namespace: socketio.emit without a recipient goes to
\* all of them, the client whose connect is being handled included
Namespace == {c \in Clients : link[c] # "down"}

\* handle_connect: the clients robot_status is emitted to
handle_connect(namespace) == namespace

\* mutant: the request is logged and nothing is emitted
HandleGetStatusSilent(namespace) == {}

\* handle_get_status: the clients robot_status is emitted to
handle_get_status(namespace) == namespace

\* room for one more event and for the robot_status it leads to
Room == \A c \in Clients : Len(events) + Len(inbox[c]) < MaxQueue

\* sio.connect(...): the client asks for a connection
Connect(c) ==
    /\ link[c] = "down"
    /\ Room
    /\ link' = [link EXCEPT ![c] = "connecting"]
    /\ events' = Append(events, [name |-> "connect", sid |-> c])
    /\ pending' = [pending EXCEPT ![c] = TRUE]
    /\ UNCHANGED <<inbox, connected, status_received>>
    /\ UNCHANGED <<sendVars, trackVars, tick, canvas, frameVars, xf>>

\* the server handles the oldest event: handle_connect emits robot_status and
\* the connection is accepted; handle_get_status emits robot_status
HandleEvent ==
    /\ events # <<>>
    /\ LET e == Head(events)
           to == IF e.name = "connect" THEN handle_connect(Namespace)
                 ELSE handle_get_status(Namespace)
       IN  /\ inbox' = [c \in Clients |->
                          IF c \in to THEN Append(inbox[c], RobotStatus) ELSE inbox[c]]
           /\ link' = IF e.name = "connect" /\ link[e.sid] = "connecting"
                      THEN [link EXCEPT ![e.sid] = "up"] ELSE link
    /\ events' = Tail(events)
    /\ UNCHANGED <<connected, status_received, pending>>
    /\ UNCHANGED <<sendVars, trackVars, tick, canvas, frameVars, xf>>

\* on_connect of the client: it notes the connection and asks for the status
OnConnect(c) ==
    /\ link[c] = "up"
    /\ ~connected[c]
    /\ connected' = [connected EXCEPT ![c] = TRUE]
    /\ events' = Append(events, [name |-> "get_status", sid |-> c])
    /\ pending' = [pending EXCEPT ![c] = TRUE]
    /\ UNCHANGED <<link, inbox, status_received>>
    /\ UNCHANGED <<sendVars, trackVars, tick, canvas, frameVars, xf>>

\* sio.emit('get_status', {}) at any later time
GetStatus(c) ==
    /\ link[c] = "up"
    /\ connected[c]
    /\ Room
    /\ events' = Append(events, [name |-> "get_status", sid |-> c])
    /\ pending' = [pending EXCEPT ![c] = TRUE]
    /\ UNCHANGED <<link, inbox, connected, status_received>>
    /\ UNCHANGED <<sendVars, trackVars, tick, canvas, frameVars, xf>>

\* on_robot_status of the client: a robot_status event arrives
OnRobotStatus(c) ==
    /\ link[c] = "up"
    /\ inbox[c] # <<>>
    /\ inbox' = [inbox EXCEPT ![c] = Tail(@)]
    /\ status_received' = [status_received EXCEPT ![c] = TRUE]
    /\ pending' = [pending EXCEPT ![c] = FALSE]
    /\ UNCHANGED <<link, events, connected>>
    /\ UNCHANGED <<sendVars, trackVars, tick, canvas, frameVars, xf>>

\* sio.disconnect() and the end of the client's run: what was emitted to it
\* and has not arrived is dropped
Disconnect(c) ==
    /\ link[c] = "up"
    /\ link' = [link EXCEPT ![c] = "down"]
    /\ inbox' = [inbox EXCEPT ![c] = <<>>]
    /\ connected' = [connected EXCEPT ![c] = FALSE]
    /\ status_received' = [status_received EXCEPT ![c] = FALSE]
    /\ UNCHANGED <<events, pending>>
    /\ UNCHANGED <<sendVars, trackVars, tick, canvas, frameVars, xf>>

-----------------------------------------------------------------------------
(* Specifications *)

Init ==
    /\ app = [s \in Sessions |-> "none"]
    /\ port = [s \in Sessions |-> None]
    /\ job = [s \in Sessions |-> NoJob]
    /\ todo = [s \in Sessions |-> <<>>]
    /\ sent = [s \in Sessions |-> <<>>]
    /\ pc = [s \in Sessions |-> "idle"]
    /\ conn = [s \in Sessions |-> FALSE]
    /\ writes = [s \in Sessions |-> 0]
    /\ failed = [s \in Sessions |-> 0]
    /\ warned = [s \in Sessions |-> 0]
    /\ written = [s \in Sessions |-> <<>>]
    /\ last = [s \in Sessions |-> Absent]
    /\ cycles = [s \in Sessions |-> 0]
    /\ caps = [c \in Cams |-> "none"]
    /\ retained = [c \in Cams |-> Absent]
    /\ good = [c \in Cams |-> Absent]
    /\ lastGet = [fn |-> "none", cam |-> 0, read |-> FALSE, result |-> Absent]
    /\ xf = NoXf
    /\ tracking_active = [s \in Sessions |-> FALSE]
    /\ selected_camera = [s \in Sessions |-> -1]
    /\ prev_hand_positions = [s \in Sessions |-> <<>>]
    /\ score_thr = [s \in Sessions |-> HAND_SCORE_THRESHOLD]
    /\ center_smoothing = [s \in Sessions |-> Norm(1, 2)]
    /\ prevFresh = [s \in Sessions |-> FALSE]
    /\ prevSeen = [s \in Sessions |-> {}]
    /\ prevCam = [s \in Sessions |-> -1]
    /\ lastCam = [s \in Sessions |-> -1]
    /\ tick = [s \in Sessions |-> NoTick]
    /\ link = [c \in Clients |-> "down"]
    /\ events = <<>>
    /\ inbox = [c \in Clients |-> <<>>]
    /\ connected = [c \in Clients |-> FALSE]
    /\ status_received = [c \in Clients |-> FALSE]
    /\ pending = [c \in Clients |-> FALSE]
    /\ canvas = [s \in Sessions |-> Absent]

\* one console session: every command-emitting operation and the transport
NextPlan ==
    \/ Start(1)
    \/ SetMotorAngles(1)
    \/ OpenHand(1)
    \/ CloseHand(1)
    \/ PointToAngle(1)
    \/ PickUp(1)
    \/ DrawOnTable(1)
    \/ SendDrawingInstructions(1)
    \/ PickUpAtRectangleCenters(1)
    \/ CenterRobotOnHands(1)
    \/ SendCommand(1)
    \/ SendWrite(1)
    \/ Return(1)

Spec == Init /\ [][NextPlan]_vars

\* two sessions on the same machine, each with its own connection to the
\* one device
NextConc ==
    \E s \in Sessions :
        \/ Start(s)
        \/ PointToAngle(s)
        \/ DrawOnTable(s)
        \/ CenterRobotOnHands(s)
        \/ SendCommand(s)
        \/ SendWrite(s)
        \/ Return(s)

SpecConc == Init /\ [][NextConc]_vars

\* camera_control_app.py: the frame source with fallback
NextFrame ==
    \E c \in Cams :
        \/ open_capture(c)
        \/ CaptureLost(c)
        \/ GetContinuousFrame(c)

SpecFrame == Init /\ [][NextFrame]_vars

\* utils/video_processing.py: CameraManager and its consumers
NextCamera ==
    \E c \in Cams :
        \/ open_capture(c)
        \/ CaptureLost(c)
        \/ GetFrame(c)
        \/ GetHandTrackedFrame(c)
        \/ GetAnnotatedFrame(c)

SpecCamera == Init /\ [][NextCamera]_vars

\* hand_tracking_app.py: one session of the tracking page
NextTrack ==
    \/ Start(1)
    \/ \E c \in Cams : OpenPage(1, c)
    \/ StartTracking(1)
    \/ StopTracking(1)
    \/ Reset(1)
    \/ VideoStream(1)
    \/ SendCommand(1)
    \/ SendWrite(1)
    \/ Return(1)

SpecTrack == Init /\ [][NextTrack]_vars

\* the tracking page with the operator changing the camera
NextSwitch ==
    \/ NextTrack
    \/ \E c \in Cams : SwitchCamera(1, c)

SpecSwitch == Init /\ [][NextSwitch]_vars

\* the tracking page in front of a group, with the operator moving the
\* Confidence Threshold slider
NextCrowd ==
    \/ Start(1)
    \/ \E c \in Cams : OpenPage(1, c)
    \/ StartTracking(1)
    \/ \E confidence \in ThresholdChoices : SetConfidence(1, confidence)
    \/ VideoStreamCrowd(1)
    \/ SendCommand(1)
    \/ SendWrite(1)
    \/ Return(1)

SpecCrowd == Init /\ [][NextCrowd]_vars

\* center_robot_on_hands on its own
NextCenter ==
    \/ Start(1)
    \/ CenterRobotOnHands(1)
    \/ SendCommand(1)
    \/ SendWrite(1)
    \/ Return(1)

SpecCenter == Init /\ [][NextCenter]_vars

\* the two controllers, called by video_stream and, for centering, also
\* directly with positions of the caller's choice
NextControl ==
    \/ Start(1)
    \/ \E c \in Cams : OpenPage(1, c)
    \/ StartTracking(1)
    \/ VideoStreamFew(1)
    \/ CenterRobotOnHands(1)
    \/ SendCommand(1)
    \/ SendWrite(1)
    \/ Return(1)

SpecControl == Init /\ [][NextControl]_vars

\* drawing_app.py: the operator draws and sends
NextDraw ==
    \/ Start(1)
    \/ \E obj \in ObjectChoices : DrawObject(1, obj)
    \/ SendToRobot(1)
    \/ SendCommand(1)
    \/ SendWrite(1)
    \/ Return(1)

SpecDraw == Init /\ [][NextDraw]_vars

\* the Flask-SocketIO server and its clients
NextSocket ==
    \/ HandleEvent
    \/ \E c \in Clients :
          \/ Connect(c)
          \/ OnConnect(c)
          \/ GetStatus(c)
          \/ OnRobotStatus(c)
          \/ Disconnect(c)

\* the server handles every event it received, and an event emitted to a
\* connected client arrives
SpecSocket ==
    /\ Init
    /\ [][NextSocket]_vars
    /\ WF_vars(HandleEvent)
    /\ \A c \in Clients : WF_vars(OnRobotStatus(c))

\* the coordinate transform, there and back
NextXf == XfPick \/ XfToRobot \/ XfToCanvas \/ XfDone

SpecXf == Init /\ [][NextXf]_vars

-----------------------------------------------------------------------------
(* The claims *)

RECURSIVE StrokeOffset(_, _)
\* the number of commands emitted for the strokes before stroke j
StrokeOffset(strokes, j) ==
    IF j = 1 THEN 0
    ELSE StrokeOffset(strokes, j - 1)
         + (IF Len(strokes[j - 1]) = 0 THEN 0 ELSE Len(strokes[j - 1]) + 2)

\* a MoveTo record, field by field
MoveToAt(x, y, z, cfg) ==
    [T |-> 104, x |-> x, y |-> y, z |-> z, t |-> cfg.t_angle, spd |-> cfg.speed]

\* C1: when send_drawing_instructions has returned, each stroke of n >= 1
\* points has contributed exactly n + 2 MoveTo commands, in this order: z_up
\* at point 1, z_down at point 1, z_down at points 2..n, z_up at point n;
\* empty strokes contribute nothing.
C1_StrokePlan ==
    \A s \in Sessions :
        (pc[s] = "done" /\ job[s].op = "send_drawing_instructions") =>
            LET st == job[s].strokes
                cfg == job[s].cfg
                out == sent[s]
            IN  /\ Len(out) = StrokeOffset(st, Len(st) + 1)
                /\ \A j \in 1..Len(st) :
                      LET n == Len(st[j])
                          off == StrokeOffset(st, j)
                      IN  n >= 1 =>
                            /\ StrokeOffset(st, j + 1) = off + n + 2
                            /\ out[off + 1] = MoveToAt(st[j][1][1], st[j][1][2], cfg.z_up, cfg)
                            /\ out[off + 2] = MoveToAt(st[j][1][1], st[j][1][2], cfg.z_down, cfg)
                            /\ \A i \in 2..n :
                                  out[off + i + 1] =
                                      MoveToAt(st[j][i][1], st[j][i][2], cfg.z_down, cfg)
                            /\ out[off + n + 2] =
                                   MoveToAt(st[j][n][1], st[j][n][2], cfg.z_up, cfg)

\* a drawing of a one-point stroke and a three-point stroke has been sent:
\* 3 + 5 commands
C1_Witness ==
    /\ pc[1] = "done"
    /\ job[1].op = "send_drawing_instructions"
    /\ Len(job[1].strokes) = 2
    /\ Len(job[1].strokes[1]) = 1
    /\ Len(job[1].strokes[2]) = 3
    /\ Len(sent[1]) = 8
    /\ sent[1][3] = sent[1][1]
    /\ sent[1][2].z = job[1].cfg.z_down

\* the center of a rectangle in robot coordinates, along one axis:
\* origin + ((2 * low + extent) * scale) / 2
CenterOf(low, extent, scale, origin) ==
    RAdd(origin, RDiv(RMul(RAdd(RMul(R(2), low), extent), scale), R(2)))

\* C2: when pick_up_at_rectangle_centers has returned on k rectangles it has
\* emitted 4k commands, for the i-th rectangle (degenerate or not) in this
\* order: MoveTo(z_up), MoveTo(z_pickup), GripperSet(close angle),
\* MoveTo(z_up), all at the rectangle's center in robot coordinates.
C2_PickupPlan ==
    \A s \in Sessions :
        (pc[s] = "done" /\ job[s].op = "pick_up_at_rectangle_centers") =>
            LET rs == job[s].rects
                cfg == job[s].cfg
                out == sent[s]
            IN  /\ Len(out) = 4 * Len(rs)
                /\ \A i \in 1..Len(rs) :
                      LET cx == CenterOf(rs[i].left, rs[i].width, cfg.scale_x, cfg.origin_x)
                          cy == CenterOf(rs[i].top, rs[i].height, cfg.scale_y, cfg.origin_y)
                          b == 4 * (i - 1)
                      IN  /\ out[b + 1] = MoveToAt(cx, cy, cfg.z_up, cfg)
                          /\ out[b + 2] = MoveToAt(cx, cy, cfg.z_pickup, cfg)
                          /\ out[b + 3] = [T |-> 106, cmd |-> Norm(6, 5),
                                           spd |-> Norm(1, 2), acc |-> R(10)]
                          /\ out[b + 4] = MoveToAt(cx, cy, cfg.z_up, cfg)

\* the 50 x 50 rectangle at (100, 100), then a degenerate one, have been
\* processed with the default configuration: the first center is
\* 100 + 125 * 3/8 = 1175/8 on both axes
C2_Witness ==
    /\ pc[1] = "done"
    /\ job[1].op = "pick_up_at_rectangle_centers"
    /\ job[1].cfg = DefaultCfg
    /\ Len(job[1].rects) = 2
    /\ job[1].rects[1] = [left |-> R(100), top |-> R(100), width |-> R(50), height |-> R(50)]
    /\ job[1].rects[2].width = R(0)
    /\ Len(sent[1]) = 8
    /\ sent[1][1].x = <<1175, 8>>
    /\ sent[1][1].y = <<1175, 8>>

\* C3: a transport failure never aborts a plan: at every point of a running
\* handler the commands handed to send_command so far, followed by those still
\* to be sent, are the handler's plan, in plan order; when the handler has
\* returned every command of the plan was handed over exactly once, and each
\* of these calls ended in exactly one of: a write, a failure report, a
\* no-port warning.
C3_NoAbort ==
    \A s \in Sessions :
        pc[s] \in {"ready", "open", "done"} =>
            /\ sent[s] \o todo[s] = job[s].plan
            /\ pc[s] = "done" => todo[s] = <<>> /\ sent[s] = job[s].plan
            /\ writes[s] + failed[s] + warned[s]
                   = Len(sent[s]) - (IF pc[s] = "open" THEN 1 ELSE 0)

\* a pickup macro of 8 commands has returned with a port configured; 7 of
\* its sends failed and the last one was written
C3_Witness ==
    /\ pc[1] = "done"
    /\ port[1] # None
    /\ job[1].op = "pick_up_at_rectangle_centers"
    /\ Len(sent[1]) = 8
    /\ failed[1] = 7
    /\ writes[1] = 1
    /\ written[1] = Encode(sent[1][8])

\* C4: with no port configured, every send_command call of a
\* RobotArmController reports the missing port, no connection is ever opened
\* and nothing is written, throughout a multi-command plan.
C4_NoPort ==
    \A s \in Sessions :
        (app[s] \in {"controller", "hand_tracking"} /\ port[s] = None) =>
            /\ ~conn[s]
            /\ pc[s] # "open"
            /\ writes[s] = 0
            /\ written[s] = <<>>
            /\ failed[s] = 0
            /\ warned[s] = Len(sent[s])

\* a drawing of 8 commands was issued without a port: 8 warnings, no write
C4_Witness ==
    /\ app[1] = "controller"
    /\ port[1] = None
    /\ pc[1] = "done"
    /\ job[1].op = "send_drawing_instructions"
    /\ Len(sent[1]) = 8
    /\ warned[1] = 8

\* C5: a connection is open only inside a send_command call, so every call
\* opens its own and none is left open when the call returns, whether the
\* send succeeded or failed; each finished call made at most one write and
\* exactly one report or write (no retry); writes never outnumber calls.
C5_OneWritePerCall ==
    \A s \in Sessions :
        /\ conn[s] <=> pc[s] = "open"
        /\ writes[s] <= Len(sent[s])
        /\ writes[s] + failed[s] + warned[s]
               = Len(sent[s]) - (IF pc[s] = "open" THEN 1 ELSE 0)
        /\ (failed[s] = 0 /\ warned[s] = 0 /\ pc[s] = "done") => writes[s] = Len(sent[s])

\* camera_control_app's send_command ran twice for "Run Draw": one send
\* failed, one was written, and no connection is open
C5_Witness ==
    /\ app[1] = "camera_control"
    /\ pc[1] = "done"
    /\ job[1].op = "draw_on_table"
    /\ Len(sent[1]) = 2
    /\ writes[1] = 1
    /\ failed[1] = 1
    /\ ~conn[1]

\* C6: at most one session is between opening the device and closing it.
C6_SingleWriter ==
    \A s \in Sessions, t \in Sessions :
        (s # t /\ port[s] # None /\ port[s] = port[t]) => ~(conn[s] /\ conn[t])

\* the RGB image of a BGR frame, channel by channel
RgbOf(frame) == <<frame[3], frame[2], frame[1]>>

\* C7: get_continuous_frame returns None exactly when no read of that camera
\* has succeeded so far, and otherwise the image of the most recent
\* successful read; the retained image of every camera is the image of its
\* most recent successful read, so a failed read or a missing or closed
\* capture leaves it unchanged.
C7_Fallback ==
    /\ \A c \in Cams :
          retained[c] = (IF good[c] = Absent THEN Absent ELSE RgbOf(good[c]))
    /\ lastGet.fn = "get_continuous_frame" =>
          /\ lastGet.result = Absent <=> good[lastGet.cam] = Absent
          /\ good[lastGet.cam] # Absent => lastGet.result = RgbOf(good[lastGet.cam])

\* a call on a capture that is closed by now returned the image read earlier
C7_Witness ==
    /\ lastGet.fn = "get_continuous_frame"
    /\ ~lastGet.read
    /\ caps[lastGet.cam] = "closed"
    /\ lastGet.result = <<2, 1, 0>>

C9_RoundTrip ==
    /\ xf.stage = "canvas" =>
          /\ xf.scale_x # R(0) /\ xf.scale_y # R(0)
          /\ xf.canvas = <<xf.x, xf.y>>
    /\ xf.stage = "ZeroDivisionError" => (xf.scale_x = R(0) \/ xf.scale_y = R(0))

\* the point (1/3, 125) went through scales 3/8 and -2 and origins -7/2 and
\* 100 and came back
C9_Witness ==
    /\ xf.stage = "canvas"
    /\ xf.x = <<1, 3>> /\ xf.y = <<125, 1>>
    /\ xf.scale_x = <<3, 8>> /\ xf.scale_y = <<-2, 1>>
    /\ xf.origin_x = <<-7, 2>> /\ xf.origin_y = <<100, 1>>
    /\ xf.robot = <<<<-27, 8>>, <<-150, 1>>>>
    /\ xf.canvas = <<<<1, 3>>, <<125, 1>>>>

\* C10: the line a send put on the port is one JSON object followed by a
\* newline, and the object has exactly the fields of its variant: 104 MoveTo,
\* 106 GripperSet, 121 JointSet, 999 MotorAnglesSet; no other type code.
C10_WireFormat ==
    \A s \in Sessions :
        written[s] # <<>> =>
            /\ Len(written[s]) = 2
            /\ written[s][2] = "\n"
            /\ LET o == written[s][1]
               IN  \/ o.T = 104 /\ DOMAIN o = {"T", "x", "y", "z", "t", "spd"}
                   \/ o.T = 106 /\ DOMAIN o = {"T", "cmd", "spd", "acc"}
                   \/ o.T = 121 /\ DOMAIN o = {"T", "joint", "angle", "spd", "acc"}
                   \/ o.T = 999 /\ DOMAIN o = {"T", "angles"}

\* a motor-angle record is on the line, its joint ids written as JSON keys
C10_Witness ==
    /\ written[1] # <<>>
    /\ written[1][1].T = 999
    /\ DOMAIN written[1][1].angles = {"1", "2", "3", "4"}
    /\ written[1][1].angles["1"] = R(90)

-----------------------------------------------------------------------------
(* Tracking and centering: claims C11 .. C20 *)

RLe(a, b) == a[1] * b[2] <= b[1] * a[2]

\* the running video_stream tick of session 1 got a frame
TickShown == tick[1].fn = "video_stream" /\ tick[1].image

\* ... in movement mode: robot control on, Center on Target off, a port
MovementMode ==
    /\ TickShown
    /\ tick[1].track_movement
    /\ tick[1].enabled
    /\ ~tick[1].center
    /\ is_port_available(port[1])

\* ... in centering mode: robot control on, Center on Target on, a port
CenteringMode ==
    /\ TickShown
    /\ tick[1].enabled
    /\ tick[1].center
    /\ is_port_available(port[1])

\* the movements of the tick that satisfy P(m), as indices
MovementsWhere(P(_)) ==
    {i \in 1..Len(tick[1].movements) : P(tick[1].movements[i])}

IsJointSet(c) == c.T = CMD_JOINT_ANGLE

\* C11: in movement mode with robot control enabled and a port, every
\* movement of the right side whose distance exceeds 10 px has exactly one
\* JointSet command sent for it in that tick: when the tick has returned,
\* the commands it sent are JointSets, one per such movement.
C11_LeadMovementCommand ==
    (MovementMode /\ pc[1] = "done") =>
        LET NonStationaryLead(m) == m.side = "right" /\ m.distance_sq > 100
        IN  /\ Len(sent[1]) = Cardinality(MovementsWhere(NonStationaryLead))
            /\ \A i \in 1..Len(sent[1]) : IsJointSet(sent[1][i])

\* C12: in movement mode a hand that moved 10 px or less, or whose side was
\* not detected in the previous frame, gets no motion command in that tick:
\* there are no more commands than movements of more than 10 px of sides
\* the previous frame showed.
C12_StationaryNoCommand ==
    (MovementMode /\ pc[1] = "done") =>
        LET Qualifies(m) == m.distance_sq > 100 /\ m.side \in tick[1].prevSeen
        IN  Len(sent[1]) <= Cardinality(MovementsWhere(Qualifies))

\* C13: in centering mode with robot control enabled and a port, every tick
\* that detects at least one hand sends exactly one JointSet on joint 1 and
\* then exactly one MoveTo at z = Z_UP, whatever Track Movement is and also
\* on the first tick after Start or Reset.
C13_CenteringEveryTick ==
    (CenteringMode /\ tick[1].detections # <<>> /\ pc[1] = "done") =>
        /\ Len(sent[1]) = 2
        /\ IsJointSet(sent[1][1]) /\ sent[1][1].joint = 1
        /\ sent[1][2].T = CMD_MOVE_TO_POSITION /\ sent[1][2].z = Z_UP

\* C14: the base-joint angle centering sends lies in [-45, +45] degrees for
\* every hand position, smoothing factor and smoothing history.
C14_BaseAngleClamped ==
    \A i \in 1..Len(sent[1]) :
        (tick[1].called = "center_robot_on_hands" /\ IsJointSet(sent[1][i])) =>
            RLe(R(-45), sent[1][i].angle) /\ RLe(sent[1][i].angle, R(45))

\* x lies between a and b, ends included
Between(a, x, b) == (RLe(a, x) /\ RLe(x, b)) \/ (RLe(b, x) /\ RLe(x, a))
RAbs(a) == <<Abs(a[1]), a[2]>>

\* C15: centering smoothing never overshoots.  A cycle without stored state
\* stores and sends the raw target; every later cycle stores, for each of the
\* three values, prev + (raw - prev) * alpha, which lies between prev and
\* raw, is no farther from raw than prev was and is not on the other side of
\* raw; the values sent are the values stored.
C15_SmoothingNoOvershoot ==
    (tick[1].called = "center_robot_on_hands" /\ tick[1].raw # Absent) =>
        LET raw == tick[1].raw
            prev == tick[1].stored
            alpha == tick[1].smoothing
            new == last[1]
        IN  /\ IF prev = Absent
               THEN new = raw
               ELSE \A k \in 1..3 :
                      /\ new[k] = RAdd(prev[k], RMul(RSub(raw[k], prev[k]), alpha))
                      /\ Between(prev[k], new[k], raw[k])
                      /\ RLe(RAbs(RSub(raw[k], new[k])), RAbs(RSub(raw[k], prev[k])))
                      /\ RLe(R(0), RMul(RSub(raw[k], new[k]), RSub(raw[k], prev[k])))
            /\ job[1].plan[1].angle = new[3]
            /\ job[1].plan[2].x = new[1]
            /\ job[1].plan[2].y = new[2]

\* a later cycle with a smoothing factor below 1 has moved the base angle
\* strictly between the stored and the raw value
C15_Witness ==
    /\ tick[1].called = "center_robot_on_hands"
    /\ tick[1].raw # Absent
    /\ tick[1].stored # Absent
    /\ tick[1].smoothing = Norm(1, 10)
    /\ tick[1].stored[3] # tick[1].raw[3]
    /\ last[1][3] # tick[1].raw[3]
    /\ last[1][3] # tick[1].stored[3]
    /\ pc[1] = "done"
    /\ writes[1] = 2

\* C16: the stored previous positions are never older than one tick: what
\* is stored was stored by the latest tick, and a tick computes a movement
\* only for a side the previous frame showed.
C16_PrevOneTickOld ==
    /\ DOMAIN prev_hand_positions[1] # {} => prevFresh[1]
    /\ TickShown =>
          \A i \in 1..Len(tick[1].movements) :
              tick[1].movements[i].side \in tick[1].prevSeen

\* C17: tracking state is never shared across camera streams: a tick
\* computes displacements only against positions seen on its own camera and
\* smooths only against a value fed by its own camera.
C17_NoCrossCamera ==
    tick[1].fn = "video_stream" =>
        /\ tick[1].movements # <<>> => tick[1].prevCam = tick[1].cam
        /\ (tick[1].called = "center_robot_on_hands" /\ tick[1].raw # Absent
              /\ tick[1].stored # Absent) => tick[1].storedCam = tick[1].cam

\* C18: every client connect and every get_status request is eventually
\* followed by a robot_status event delivered to that client, as long as the
\* client stays connected.
C18_StatusDelivered ==
    \A c \in Clients : pending[c] ~> (~pending[c] \/ link[c] = "down")

\* the test's outcome: connected and status_received are both true, the
\* get_status request of on_connect was handled and its answer has arrived
C18_Witness ==
    /\ link[1] = "up"
    /\ connected[1]
    /\ status_received[1]
    /\ ~pending[1]
    /\ events = <<>>
    /\ inbox[1] = <<>>

\* C19: a movement of more than 10 px is left/right whenever |dx| >= |dy|
\* (the tie included) and up/down only when |dx| < |dy|; right iff dx > 0,
\* down iff dy > 0.
C19_DirectionByAxis ==
    TickShown =>
        \A i \in 1..Len(tick[1].movements) :
            LET m == tick[1].movements[i]
                dx == m.delta[1]
                dy == m.delta[2]
            IN  m.distance_sq > 100 =>
                  m.direction = IF Abs(dx) >= Abs(dy)
                                THEN (IF dx > 0 THEN "right" ELSE "left")
                                ELSE (IF dy > 0 THEN "down" ELSE "up")

\* the joint and the angle the claim gives a direction
JointOf(direction) == IF direction \in {"up", "down"} THEN 2 ELSE 1
AngleOf(direction) == IF direction \in {"up", "left"} THEN R(45) ELSE R(-45)

\* C20: every command movement mode sends is a JointSet at speed 10 on the
\* joint and angle of the direction of a right-side movement of that tick:
\* up -> (2, +45), down -> (2, -45), left -> (1, +45), right -> (1, -45).
C20_MovementVocabulary ==
    tick[1].called = "control_robot_from_movement" =>
        \A i \in 1..Len(sent[1]) :
            /\ IsJointSet(sent[1][i])
            /\ sent[1][i].spd = R(10)
            /\ \E j \in 1..Len(tick[1].movements) :
                  LET m == tick[1].movements[j]
                  IN  /\ m.side = "right"
                      /\ m.direction \in {"up", "down", "left", "right"}
                      /\ sent[1][i].joint = JointOf(m.direction)
                      /\ sent[1][i].angle = AngleOf(m.direction)

\* a right hand that moved up by more than 20 px had its command written
C20_Witness ==
    /\ tick[1].called = "control_robot_from_movement"
    /\ pc[1] = "done"
    /\ writes[1] = 1
    /\ Len(sent[1]) = 1
    /\ tick[1].movements[1].direction = "up"
    /\ sent[1][1].joint = 2
    /\ sent[1][1].angle = R(45)

-----------------------------------------------------------------------------
(* Detection, planning and frame effects: claims C21 .. C30 *)

RECURSIVE SumOfPositions(_, _)
\* the sum of coordinate k over a list of detections
SumOfPositions(detections, k) ==
    IF detections = <<>> THEN 0
    ELSE Head(detections).position[k] + SumOfPositions(Tail(detections), k)

\* the raw target of a centroid <<cx, cy>>: the robot-space point and the
\* base angle
TargetOfCentroid(cx, cy) ==
    <<RAdd(R(100), RMul(RDiv(cx, R(640)), R(300))),
      RAdd(R(100), RMul(RDiv(cy, R(480)), R(225))),
      RMul(RDiv(RSub(cx, R(320)), R(320)), R(45))>>

\* C21: the centering target is the centroid of all detections of the
\* current frame: with d detections (several persons may contribute
\* detections of the same side) the raw target of a centering cycle is
\* computed from the mean of all d positions.
C21_CentroidOfAll ==
    (TickShown /\ tick[1].called = "center_robot_on_hands"
       /\ tick[1].raw # Absent) =>
        LET d == Len(tick[1].detections)
        IN  tick[1].raw = TargetOfCentroid(Norm(SumOfPositions(tick[1].detections, 1), d),
                                           Norm(SumOfPositions(tick[1].detections, 2), d))

RGe(a, b) == a[1] * b[2] >= b[1] * a[2]

\* the detections the filter "confidence >= threshold" gives one person
QualifyingWrists(person, thr) ==
    (IF RGe(person.left_wrist[3], thr)
     THEN <<[position |-> <<person.left_wrist[1], person.left_wrist[2]>>,
             side |-> "left", confidence |-> person.left_wrist[3],
             keypoint |-> "wrist"]>>
     ELSE <<>>)
    \o (IF RGe(person.right_wrist[3], thr)
        THEN <<[position |-> <<person.right_wrist[1], person.right_wrist[2]>>,
                side |-> "right", confidence |-> person.right_wrist[3],
                keypoint |-> "wrist"]>>
        ELSE <<>>)

RECURSIVE QualifyingAll(_, _)
QualifyingAll(persons, thr) ==
    IF persons = <<>> THEN <<>>
    ELSE QualifyingWrists(Head(persons), thr) \o QualifyingAll(Tail(persons), thr)

\* C22: for each person of the frame the left wrist and the right wrist are
\* each reported iff the keypoint's own confidence is >= the current
\* threshold (equal to it included), independently of the other wrist,
\* tagged left / right; a frame with no qualifying keypoint gives the empty
\* list.
C22_FilterAtThreshold ==
    TickShown => tick[1].detections = QualifyingAll(tick[1].persons, tick[1].thr)

\* the commands of a stroke of n >= 1 points
PlanOfStroke(stroke, cfg) ==
    LET n == Len(stroke)
    IN  <<MoveToAt(stroke[1][1], stroke[1][2], cfg.z_up, cfg)>>
        \o [i \in 1..n |-> MoveToAt(stroke[i][1], stroke[i][2], cfg.z_down, cfg)]
        \o <<MoveToAt(stroke[n][1], stroke[n][2], cfg.z_up, cfg)>>

RECURSIVE PlanOfStrokes(_, _)
\* the commands of a list of strokes none of which is empty
PlanOfStrokes(strokes, cfg) ==
    IF strokes = <<>> THEN <<>>
    ELSE PlanOfStroke(Head(strokes), cfg) \o PlanOfStrokes(Tail(strokes), cfg)

\* the list without its empty strokes
NonEmptyStrokes(strokes) == SelectSeq(strokes, LAMBDA st : Len(st) > 0)

\* C23: empty strokes produce zero commands and are not errors: when
\* send_drawing_instructions has returned, the commands it emitted are those
\* of the list without its empty strokes, so an empty stroke contributes
\* nothing and changes nothing for the other strokes.
C23_EmptyStrokesSkipped ==
    \A s \in Sessions :
        (pc[s] = "done" /\ job[s].op = "send_drawing_instructions") =>
            sent[s] = PlanOfStrokes(NonEmptyStrokes(job[s].strokes), job[s].cfg)

\* a drawing whose first stroke is empty and whose second has two points
\* has been sent: the four commands of the second stroke
C23_Witness ==
    /\ pc[1] = "done"
    /\ job[1].op = "send_drawing_instructions"
    /\ Len(job[1].strokes) = 2
    /\ Len(job[1].strokes[1]) = 0
    /\ Len(job[1].strokes[2]) = 2
    /\ Len(sent[1]) = 4
    /\ sent[1][1].x = job[1].strokes[2][1][1]

\* the stroke that command i of a drawing belongs to
StrokeOfCommand(strokes, i) ==
    CHOOSE j \in 1..Len(strokes) :
        StrokeOffset(strokes, j) < i /\ i <= StrokeOffset(strokes, j + 1)

\* C25: pen travel.  With z_up # z_down, no two consecutive commands emitted
\* by send_drawing_instructions differ in both (x, y) and z; a change of
\* (x, y) between two strokes has both commands at z_up; a change of (x, y)
\* with the first command at z_down stays at z_down and within one stroke.
C25_PenTravel ==
    \A s \in Sessions :
        (job[s].op = "send_drawing_instructions" /\ job[s].cfg.z_up # job[s].cfg.z_down) =>
            \A i \in 1..(Len(sent[s]) - 1) :
                LET a == sent[s][i]
                    b == sent[s][i + 1]
                    moved == <<a.x, a.y>> # <<b.x, b.y>>
                    same == StrokeOfCommand(job[s].strokes, i)
                              = StrokeOfCommand(job[s].strokes, i + 1)
                IN  /\ moved => a.z = b.z
                    /\ (moved /\ ~same) => (a.z = job[s].cfg.z_up /\ b.z = job[s].cfg.z_up)
                    /\ (moved /\ a.z = job[s].cfg.z_down) => same

\* two strokes have been sent, the second starting away from the end of the
\* first, and the first one tracing a line: the pen travelled at z_up
\* between them and at z_down within the first
C25_Witness ==
    /\ pc[1] = "done"
    /\ job[1].op = "send_drawing_instructions"
    /\ Len(job[1].strokes) = 2
    /\ Len(job[1].strokes[1]) = 2
    /\ Len(job[1].strokes[2]) >= 1
    /\ job[1].strokes[1][1] # job[1].strokes[1][2]
    /\ job[1].strokes[1][2] # job[1].strokes[2][1]
    /\ sent[1][4].z = job[1].cfg.z_up
    /\ sent[1][5].z = job[1].cfg.z_up
    /\ sent[1][4].x # sent[1][5].x
    /\ sent[1][2].z = job[1].cfg.z_down
    /\ sent[1][3].z = job[1].cfg.z_down
    /\ sent[1][2].x # sent[1][3].x

\* C26: every non-empty plan ends at safe height: when
\* send_drawing_instructions has returned on a list with a non-empty stroke,
\* and when pick_up_at_rectangle_centers has returned on a non-empty list,
\* the last command emitted is a MoveTo with z = z_up.
C26_EndsAtSafeHeight ==
    \A s \in Sessions :
        LET out == sent[s]
            EndsUp == /\ out # <<>>
                      /\ out[Len(out)].T = CMD_MOVE_TO_POSITION
                      /\ out[Len(out)].z = job[s].cfg.z_up
        IN  /\ (pc[s] = "done" /\ job[s].op = "send_drawing_instructions"
                  /\ NonEmptyStrokes(job[s].strokes) # <<>>) => EndsUp
            /\ (pc[s] = "done" /\ job[s].op = "pick_up_at_rectangle_centers"
                  /\ job[s].rects # <<>>) => EndsUp

\* a pickup of two rectangles has returned with its eighth and last command
\* a MoveTo at z_up above the second center, after the gripper command
C26_Witness ==
    /\ pc[1] = "done"
    /\ job[1].op = "pick_up_at_rectangle_centers"
    /\ Len(job[1].rects) = 2
    /\ Len(sent[1]) = 8
    /\ sent[1][7].T = CMD_GRIPPER_CONTROL
    /\ sent[1][8].T = CMD_MOVE_TO_POSITION
    /\ sent[1][8].z = job[1].cfg.z_up

\* the GripperSet commands among the first n emitted, as indices
GripperSets(s, n) == {i \in 1..n : sent[s][i].T = CMD_GRIPPER_CONTROL}

\* C27: the pickup macro never opens the gripper: every GripperSet that
\* pick_up_at_rectangle_centers emits has cmd = GRIPPER_CLOSE_ANGLE (none has
\* the open angle), there are exactly k of them when it has returned on k
\* rectangles, and from the second rectangle on the descent to z_pickup
\* comes after a GripperSet to the close angle.
C27_NeverOpens ==
    \A s \in Sessions :
        job[s].op = "pick_up_at_rectangle_centers" =>
            /\ \A i \in GripperSets(s, Len(sent[s])) :
                  /\ sent[s][i].cmd = GRIPPER_CLOSE_ANGLE
                  /\ sent[s][i].cmd # GRIPPER_OPEN_ANGLE
            /\ pc[s] = "done" =>
                  Cardinality(GripperSets(s, Len(sent[s]))) = Len(job[s].rects)
            /\ \A i \in 1..Len(sent[s]) :
                  (sent[s][i].T = CMD_MOVE_TO_POSITION
                     /\ sent[s][i].z = job[s].cfg.z_pickup /\ i > 4) =>
                        /\ GripperSets(s, i - 1) # {}
                        /\ \A g \in GripperSets(s, i - 1) :
                              sent[s][g].cmd = GRIPPER_CLOSE_ANGLE

\* a pickup of two rectangles has returned: two GripperSets, both to the
\* close angle, the first before the second descent
C27_Witness ==
    /\ pc[1] = "done"
    /\ job[1].op = "pick_up_at_rectangle_centers"
    /\ Len(job[1].rects) = 2
    /\ GripperSets(1, 8) = {3, 7}
    /\ sent[1][3].cmd = GRIPPER_CLOSE_ANGLE
    /\ sent[1][7].cmd = GRIPPER_CLOSE_ANGLE
    /\ sent[1][6].z = job[1].cfg.z_pickup

\* the objects of a canvas (none while json_data is None)
ObjectsOf(json_data) == IF DOMAIN json_data = {} THEN <<>> ELSE json_data.objects

\* the (x, y) of the M and L segments of a path that have at least three
\* elements, in path order
MLPoints(path) ==
    LET kept == SelectSeq(path, LAMBDA seg : Len(seg) >= 3 /\ seg[1] \in {"M", "L"})
    IN  [i \in 1..Len(kept) |-> <<kept[i][2], kept[i][3]>>]

\* the paths of a canvas that have an M or L segment, and its rectangles,
\* each in canvas-object order
DrawnPaths(json_data) ==
    SelectSeq(ObjectsOf(json_data),
              LAMBDA obj : obj.type = "path" /\ Len(MLPoints(obj.path)) > 0)
DrawnRects(json_data) == SelectSeq(ObjectsOf(json_data), LAMBDA obj : obj.type = "rect")

\* C24: parse_canvas_strokes_and_rectangles preserves drawing order: the
\* parsed strokes are, in canvas-object order, those of the paths that have
\* an M or L segment, each stroke being exactly the (x, y) of the path's M
\* and L segments in path order (segments with another letter or fewer than
\* three elements give no point, a path without M / L gives no stroke); the
\* parsed rectangles are the canvas' rectangles in canvas-object order.
C24_ParsePreservesOrder ==
    \A s \in Sessions :
        job[s].op = "send_to_robot" =>
            LET paths == DrawnPaths(canvas[s])
                rects == DrawnRects(canvas[s])
            IN  /\ Len(job[s].strokes) = Len(paths)
                /\ \A j \in 1..Len(paths) : job[s].strokes[j] = MLPoints(paths[j].path)
                /\ Len(job[s].rects) = Len(rects)
                /\ \A j \in 1..Len(rects) :
                      /\ job[s].rects[j].left = rects[j].left
                      /\ job[s].rects[j].top = rects[j].top

\* a canvas holding the path with a Q segment and a short L segment,
\* followed by the two-segment path, has been parsed: two strokes of two
\* points, the first from (0, 0) to (800, 600)
C24_Witness ==
    /\ job[1].op = "send_to_robot"
    /\ Len(ObjectsOf(canvas[1])) = 2
    /\ canvas[1].objects[1].type = "path"
    /\ Len(canvas[1].objects[1].path) = 4
    /\ Len(job[1].strokes) = 2
    /\ job[1].strokes[1] = << <<R(0), R(0)>>, <<R(800), R(600)>> >>
    /\ job[1].strokes[2] = << <<R(10), R(20)>>, <<R(30), R(40)>> >>

\* a stroke in robot coordinates, under the default configuration
ScaledStroke(stroke) ==
    [i \in 1..Len(stroke) |->
        <<RAdd(R(100), RMul(stroke[i][1], Norm(300, 800))),
          RAdd(R(100), RMul(stroke[i][2], Norm(225, 600)))>>]

\* C28: one "Send to Robot" with s non-empty strokes of n_1 .. n_s points
\* and k rectangles emits sum(n_i + 2) + 4k commands: first the commands of
\* the strokes, in canvas-object order, then the four commands of each
\* rectangle, in canvas-object order; with no strokes and no rectangles it
\* sends nothing.
C28_SendToRobotCount ==
    \A s \in Sessions :
        (pc[s] = "done" /\ job[s].op = "send_to_robot") =>
            LET strokes == job[s].strokes
                rects == job[s].rects
                out == sent[s]
                ns == StrokeOffset(strokes, Len(strokes) + 1)
            IN  /\ \A j \in 1..Len(strokes) : Len(strokes[j]) >= 1
                /\ ns = TotalPoints(strokes) + 2 * Len(strokes)
                /\ Len(out) = ns + 4 * Len(rects)
                /\ SubSeq(out, 1, ns)
                     = PlanOfStrokes([j \in 1..Len(strokes) |-> ScaledStroke(strokes[j])],
                                     DefaultCfg)
                /\ \A i \in 1..Len(rects) :
                      LET cx == CenterOf(rects[i].left, rects[i].width, SCALE_X, DRAW_ORIGIN_X)
                          cy == CenterOf(rects[i].top, rects[i].height, SCALE_Y, DRAW_ORIGIN_Y)
                          b == ns + 4 * (i - 1)
                      IN  /\ out[b + 1] = MoveToAt(cx, cy, Z_UP, DefaultCfg)
                          /\ out[b + 2] = MoveToAt(cx, cy, Z_PICKUP, DefaultCfg)
                          /\ out[b + 3].T = CMD_GRIPPER_CONTROL
                          /\ out[b + 4] = MoveToAt(cx, cy, Z_UP, DefaultCfg)
                /\ (strokes = <<>> /\ rects = <<>>) => out = <<>>

\* a rectangle drawn before a two-point stroke has been sent: the four
\* stroke commands first, then the four pickup commands
C28_Witness ==
    /\ pc[1] = "done"
    /\ job[1].op = "send_to_robot"
    /\ Len(ObjectsOf(canvas[1])) = 2
    /\ canvas[1].objects[1].type = "rect"
    /\ canvas[1].objects[2].type = "path"
    /\ Len(job[1].strokes) = 1
    /\ Len(job[1].rects) = 1
    /\ Len(sent[1]) = 8
    /\ sent[1][4].z = Z_UP
    /\ sent[1][6].z = Z_PICKUP
    /\ sent[1][7].T = CMD_GRIPPER_CONTROL

\* C29: Reset clears only the previous hand positions.  After Reset the
\* smoothing triple is the one Reset found; the first video_stream run after
\* Reset, if it centers, smooths against that triple instead of being
\* seeded by the raw value; if it tracks movement it yields no movement and
\* sends no command.
C29_ResetKeepsSmoothing ==
    /\ tick[1].fn = "reset" =>
          /\ last[1] = tick[1].kept
          /\ DOMAIN prev_hand_positions[1] = {}
    /\ (tick[1].fn = "video_stream" /\ tick[1].afterReset) =>
          /\ tick[1].stored = tick[1].kept
          /\ (tick[1].called = "center_robot_on_hands" /\ tick[1].raw # Absent
                /\ tick[1].kept # Absent) =>
                \A k \in 1..3 :
                    last[1][k] = RAdd(tick[1].kept[k],
                                      RMul(RSub(tick[1].raw[k], tick[1].kept[k]),
                                           tick[1].smoothing))
          /\ tick[1].track_movement =>
                /\ tick[1].movements = <<>>
                /\ job[1].plan = <<>>
                /\ sent[1] = <<>>

\* the first run after a Reset centered on a hand away from the stored
\* target: the triple it left is neither the stored nor the raw one, and
\* both its commands were written
C29_Witness ==
    /\ tick[1].fn = "video_stream"
    /\ tick[1].afterReset
    /\ tick[1].called = "center_robot_on_hands"
    /\ tick[1].raw # Absent
    /\ tick[1].kept # Absent
    /\ last[1] # tick[1].raw
    /\ last[1] # tick[1].kept
    /\ pc[1] = "done"
    /\ writes[1] = 2

\* the JointSet and MoveTo pair of one centering cycle
IsCenteringPair(cmds) ==
    /\ Len(cmds) = 2
    /\ IsJointSet(cmds[1]) /\ cmds[1].joint = 1
    /\ cmds[2].T = CMD_MOVE_TO_POSITION

\* C30: without a port, or with an empty set of hand positions,
\* center_robot_on_hands sends no command and leaves the smoothing triple as
\* it found it; without a port control_robot_from_movement sends no
\* command; the smoothing triple changes only in a run that also emits the
\* JointSet and MoveTo pair.
C30_GuardsKeepState ==
    /\ (tick[1].called = "center_robot_on_hands"
          /\ (~is_port_available(port[1]) \/ DOMAIN tick[1].hands = {})) =>
          /\ job[1].plan = <<>>
          /\ sent[1] = <<>>
          /\ last[1] = tick[1].stored
    /\ (tick[1].called = "control_robot_from_movement"
          /\ ~is_port_available(port[1])) =>
          /\ job[1].plan = <<>>
          /\ sent[1] = <<>>
    /\ (tick[1].fn \in {"video_stream", "center_robot_on_hands"}
          /\ last[1] # tick[1].stored) =>
          /\ tick[1].called = "center_robot_on_hands"
          /\ IsCenteringPair(job[1].plan)

\* with a smoothing triple stored and a port, centering was called with no
\* hand positions and has returned: nothing sent, the triple as before
C30_Witness ==
    /\ tick[1].called = "center_robot_on_hands"
    /\ is_port_available(port[1])
    /\ DOMAIN tick[1].hands = {}
    /\ tick[1].stored # Absent
    /\ last[1] = tick[1].stored
    /\ pc[1] = "done"
    /\ sent[1] = <<>>

====
